---- MODULE Spec2Model ----
(***************************************************************************)
(* A model of GLTF::ModelBuilder (AssetLoader/interface/GLTFBuilder.hpp):  *)
(* the allocator pass, the loader pass, the vertex/index packers and the   *)
(* skin/animation pass of ModelBuilder::Execute.                           *)
(*                                                                         *)
(* Conventions.  A Node*, Mesh*, Camera* or Skin* is the 0-based index of  *)
(* the slot in its arena, nullptr is Null.  A std::string or a C string is *)
(* the sequence of its characters.  An unordered_map is a function whose   *)
(* DOMAIN is the set of keys present.  A Uint32 is a Word <<hi, lo>> of    *)
(* two 16-bit halves, so that 32-bit wrap-around is computed exactly.      *)
(***************************************************************************)
EXTENDS Integers, Sequences, FiniteSets, TLC

(* ---------------------------------------------------------------- bounds *)

\* Number of nodes of the source scene (source node ids 0..NumNodes-1).
NumNodes == 3

\* Largest number of children links in the whole source graph.
MaxEdges == 2

\* Largest number of primitives in all source meshes together.
MaxPrims == 2

\* Largest number of channels of a source animation.
MaxChannels == 2

(* --------------------------------------------------------------- helpers *)

Null == 0 - 1

EmptyMap == <<>>

\* std::unordered_map::find(k) != end()
Has(map, k) == k \in DOMAIN map

\* std::unordered_map::emplace(k, v): inserts only when k is absent.
Emplace(map, k, v) == IF Has(map, k) THEN map ELSE (k :> v) @@ map

\* std::unordered_map::operator[] as an assignment target.
Assign(map, k, v) == (k :> v) @@ map

Values(map) == {map[k] : k \in DOMAIN map}

SeqsUpTo(S, n) == UNION {[1..k -> S] : k \in 0..n}

Min2(a, b) == IF a < b THEN a ELSE b
Max2(a, b) == IF a > b THEN a ELSE b

DigitChars == <<"0", "1", "2", "3", "4", "5", "6", "7", "8", "9">>

(* ------------------------------------------------- the source scene graph *)

GltfNodeIds == 0..(NumNodes - 1)

\* GltfNode.GetName()
GltfNodeName(n) == <<"n", DigitChars[n + 1]>>

\* GltfNode.GetTranslation(), GetRotation(), GetScale(), GetMatrix(): a source
\* node carries either TRS properties, or a matrix, or vectors of a wrong size.
GltfTranslation(n) == IF n % 3 = 0 THEN <<n + 1, 0, 0>> ELSE IF n % 3 = 2 THEN <<n, n>> ELSE <<>>
GltfRotation(n) == IF n % 3 = 0 THEN <<0, 0, 1, 0>> ELSE <<>>
GltfScale(n) == IF n % 3 = 0 THEN <<2, 2, 2>> ELSE <<>>
GltfMatrix(n) == IF n % 3 = 1 THEN [i \in 1..16 |-> IF i % 5 = 1 THEN n + 1 ELSE 0] ELSE <<>>

\* The children lists of the source nodes 0..n-1 (position k holds the list of
\* node k-1): any lists (a child may be shared by parents, repeated in one
\* list, or close a cycle) with at most budget links in all.
RECURSIVE ChildrenLists(_, _)
ChildrenLists(n, budget) ==
    IF n = 0 THEN {<<>>}
    ELSE UNION {{Append(g, c) : g \in ChildrenLists(n - 1, budget - Len(c))} :
                c \in SeqsUpTo(GltfNodeIds, budget)}

\* The source node ids reachable from the set R through children links.
RECURSIVE Reachable(_, _)
Reachable(children, R) ==
    LET next == R \cup UNION {{children[n + 1][i] : i \in 1..Len(children[n + 1])} : n \in R}
    IN  IF next = R THEN R ELSE Reachable(children, next)

Range(seq) == {seq[i] : i \in 1..Len(seq)}

\* The root lists handed to Execute: one root, or two (equal or distinct).
RootFamily == {<<r>> : r \in GltfNodeIds} \cup {<<r, q>> : r, q \in GltfNodeIds}

\* The scenes of the graph family: every node that has children is reachable
\* from the roots (links out of unreachable nodes are never read).
GraphFamily ==
    {g \in ChildrenLists(NumNodes, MaxEdges) \X RootFamily :
        \A n \in GltfNodeIds : g[1][n + 1] # <<>> => n \in Reachable(g[1], Range(g[2]))}

(* ------------------------------------------------ accessors and meshes *)

\* Uint32 values as two 16-bit halves.
Half == 256 * 256
Word(hi, lo) == <<hi, lo>>
W(n) == Word(0, n)

\* GltfModel.GetAccessor(id): count, component type, declared min/max and, for
\* an index accessor, the unsigned values GetGltfDataInfo's pData points at.
\* Accessors 0..2 are POSITION data, 10..13 index data, 20..21 animation
\* timestamps (in tenths of a second), 22..24 animation outputs, 30 inverse
\* bind matrices; the other ids (3, 4, 5) are vertex attributes whose content
\* the packer hands to WriteGltfData.
GltfAccessor(id) ==
    CASE id = 0 -> [Count |-> 3, ComponentType |-> "VT_FLOAT32", Min |-> <<0, 0, 0>>, Max |-> <<1, 1, 1>>, Data |-> <<>>]
      [] id = 1 -> [Count |-> 2, ComponentType |-> "VT_FLOAT32", Min |-> <<0 - 1, 0, 2>>, Max |-> <<0, 3, 2>>, Data |-> <<>>]
      [] id = 2 -> [Count |-> 0, ComponentType |-> "VT_FLOAT32", Min |-> <<2, 0 - 2, 0>>, Max |-> <<3, 0 - 1, 5>>, Data |-> <<>>]
      [] id = 10 -> [Count |-> 3, ComponentType |-> "VT_UINT16", Min |-> <<>>, Max |-> <<>>, Data |-> <<W(0), W(1), W(Half - 1)>>]
      [] id = 11 -> [Count |-> 2, ComponentType |-> "VT_UINT8", Min |-> <<>>, Max |-> <<>>, Data |-> <<W(255), W(0)>>]
      [] id = 12 -> [Count |-> 1, ComponentType |-> "VT_UINT32", Min |-> <<>>, Max |-> <<>>, Data |-> <<Word(Half - 1, Half - 2)>>]
      [] id = 13 -> [Count |-> 2, ComponentType |-> "VT_INT16", Min |-> <<>>, Max |-> <<>>, Data |-> <<W(0), W(1)>>]
      [] id = 20 -> [Count |-> 2, ComponentType |-> "VT_FLOAT32", Min |-> <<>>, Max |-> <<>>, Data |-> <<0, 15>>]
      [] id = 21 -> [Count |-> 3, ComponentType |-> "VT_FLOAT32", Min |-> <<>>, Max |-> <<>>, Data |-> <<20, 5, 10>>]
      [] id = 22 -> [Count |-> 2, ComponentType |-> "VT_FLOAT32", NumComponents |-> 3, Data |-> <<<<1, 2, 3>>, <<4, 5, 6>>>>]
      [] id = 23 -> [Count |-> 3, ComponentType |-> "VT_FLOAT32", NumComponents |-> 4, Data |-> <<<<0, 0, 0, 1>>, <<0, 1, 0, 0>>, <<1, 0, 0, 0>>>>]
      [] id = 24 -> [Count |-> 2, ComponentType |-> "VT_FLOAT32", NumComponents |-> 1, Data |-> <<<<7>>, <<8>>>>]
      [] id = 30 -> [Count |-> 2, ComponentType |-> "VT_FLOAT32", NumComponents |-> 16, Data |-> <<"ibm0", "ibm1">>]
      [] OTHER -> [Count |-> 3, ComponentType |-> "VT_FLOAT32", Min |-> <<>>, Max |-> <<>>, Data |-> <<>>]

\* GltfModel.GetAccessor(id) / GetGltfDataInfo(GltfModel, id): the accessors are
\* the same in every scene.
GetAccessor(id) == GltfAccessor(id)

POSITION == <<"P", "O", "S", "I", "T", "I", "O", "N">>
NORMAL == <<"N", "O", "R", "M", "A", "L">>
TEXCOORD_0 == <<"T", "E", "X", "C", "O", "O", "R", "D", "_", "0">>
JOINTS_0 == <<"J", "O", "I", "N", "T", "S", "_", "0">>
WEIGHTS_0 == <<"W", "E", "I", "G", "H", "T", "S", "_", "0">>
JOINT == <<"J", "O", "I", "N", "T">>
WEIGHT_MAP == <<"W", "E", "I", "G", "H", "T", "_", "M", "A", "P">>

\* A source primitive: attribute name -> accessor id, index accessor id (or a
\* negative id), material id (or a negative id).
Prim(attrs, indices, material) ==
    [Attributes |-> attrs, IndicesId |-> indices, MaterialId |-> material]

PrimA == Prim((POSITION :> 0) @@ (NORMAL :> 3), 10, 0)
PrimB == Prim((POSITION :> 0) @@ (NORMAL :> 3), 11, Null)
PrimC == Prim((POSITION :> 1), Null, 1)
PrimD == Prim((POSITION :> 1) @@ (NORMAL :> 4) @@ (JOINTS_0 :> 5), 12, 0)
PrimE == Prim((POSITION :> 2) @@ (NORMAL :> 3), 13, 0)

PrimCatalogue == {PrimA, PrimB, PrimC, PrimD, PrimE}

\* GltfPrimitive.GetAttribute(Name): a pointer to the accessor id, or nullptr.
GetAttribute(GltfPrimitive, Name) ==
    IF Name \in DOMAIN GltfPrimitive.Attributes THEN GltfPrimitive.Attributes[Name] ELSE Null

GltfMeshName(m) == <<"m", DigitChars[m + 1]>>

\* GltfModel.GetCamera(id)
GltfCamera(id) ==
    CASE id = 0 -> [Name |-> <<"c", "0">>, Type |-> "perspective", Params |-> <<16, 9, 1, 100>>]
      [] id = 1 -> [Name |-> <<"c", "1">>, Type |-> "orthographic", Params |-> <<4, 3, 1, 50>>]
      [] OTHER -> [Name |-> <<"c", "x">>, Type |-> "fisheye", Params |-> <<>>]

(* ------------------------------------------- the destination vertex layout *)

Attrib(name, buffer) == [Name |-> name, BufferId |-> buffer]

\* m_Model.VertexAttributes and the element strides of the vertex buffers
\* (m_Model.Buffers without its last entry, the index buffer).
Layout(attribs, strides) == [VertexAttributes |-> attribs, Strides |-> strides]

LayoutP == Layout(<<Attrib(POSITION, 0)>>, <<12>>)
LayoutPN == Layout(<<Attrib(POSITION, 0), Attrib(NORMAL, 0), Attrib(TEXCOORD_0, 1)>>, <<24, 8>>)
LayoutSkinned == Layout(<<Attrib(POSITION, 0), Attrib(NORMAL, 0), Attrib(JOINTS_0, 1), Attrib(WEIGHTS_0, 1)>>, <<24, 32>>)
LayoutWeights == Layout(<<Attrib(NORMAL, 0), Attrib(WEIGHTS_0, 1)>>, <<12, 16>>)
LayoutNearMiss == Layout(<<Attrib(POSITION, 0), Attrib(JOINT, 1), Attrib(WEIGHT_MAP, 2)>>, <<12, 4, 4>>)

\* The destination index widths in bytes (VERIFY_EXPR(IndexSize == 4 || IndexSize == 2)).
IndexSizes == {2, 4}

(* ------------------------------------------------------------- the state *)

VARIABLES
    GltfModel,               \* the parsed source: [Nodes, Meshes, Skins, Animations]; see GetAccessor
    NodeIds,                 \* Execute's root list
    m_CI,                    \* [PrimitiveLoadCallback, MeshLoadCallback]: is the hook set
    VertexAttributes,        \* m_Model.VertexAttributes
    Buffers,                 \* m_Model.Buffers: element strides, the index buffer last
    LinearNodes,             \* m_Model.LinearNodes
    Meshes,                  \* m_Model.Meshes
    Cameras,                 \* m_Model.Cameras
    RootNodes,               \* m_Model.RootNodes
    Skins,                   \* m_Model.Skins
    Animations,              \* m_Model.Animations
    SkinTransformsCount,     \* m_Model.SkinTransformsCount
    m_NodeIndexRemapping,
    m_MeshIndexRemapping,
    m_CameraIndexRemapping,
    m_LoadedNodes,
    m_LoadedMeshes,
    m_LoadedCameras,
    m_NodeIdToSkinId,
    m_IndexData,             \* the index buffer, one Word per element of the index width
    m_VertexData,            \* the byte size of every vertex buffer
    m_ConvertedBuffers,      \* key -> [Offsets]
    stack,                   \* the call stack: Execute at the bottom, then AllocateNode/LoadNode frames
    ret,                     \* the Node* the last LoadNode call returned
    primLog,                 \* per emitted primitive, in load order: the locals of LoadMesh's loop body
    convertLog,              \* the ConvertVertexData calls, in order
    callbackLog,             \* the PrimitiveLoadCallback / MeshLoadCallback invocations, in order
    asserts                  \* the VERIFY / UNEXPECTED failures raised so far

inputs == <<GltfModel, NodeIds, m_CI, VertexAttributes, Buffers>>
nodeTables == <<m_NodeIndexRemapping, m_MeshIndexRemapping, m_CameraIndexRemapping>>
meshVars == <<Meshes, m_LoadedMeshes, m_IndexData, m_VertexData, m_ConvertedBuffers,
              primLog, convertLog, callbackLog>>
cameraVars == <<Cameras, m_LoadedCameras>>
animVars == <<Skins, Animations, SkinTransformsCount>>
vars == <<inputs, LinearNodes, RootNodes, nodeTables, m_LoadedNodes, m_NodeIdToSkinId,
          meshVars, cameraVars, animVars, stack, ret, asserts>>

\* GltfModel.GetNode(id), GetMesh(id): source ids are 0-based.
GetNode(id) == GltfModel.Nodes[id + 1]
GetMesh(id) == GltfModel.Meshes[id + 1]

\* m_Model.GetNumVertexAttributes()
GetNumVertexAttributes == Len(VertexAttributes)

\* m_Model.Buffers.back().ElementStride and m_Model.Buffers[i].ElementStride (i 0-based)
IndexStride == Buffers[Len(Buffers)]
ElementStride(i) == Buffers[i + 1]

\* m_Model.Materials.size(): the materials are loaded by a collaborator.
Materials == <<"material0", "material1", "default">>

\* The arena slot a 0-based pointer designates.
NodeAt(k) == LinearNodes[k + 1]

(* --------------------------------------------------- Index Buffer Packer *)

\* Uint32 arithmetic on Words: conversion of a size, addition modulo 2^32.
ToWord(n) == Word((n \div Half) % Half, n % Half)
Add32(a, b) ==
    LET lo == a[2] + b[2]
    IN  Word((a[1] + b[1] + (lo \div Half)) % Half, lo % Half)

\* static_cast<DstType>(x) of a Uint32 x, DstType being Uint16 or Uint32.
CastToDst(DstSize, x) == IF DstSize = 2 THEN Word(0, x[2]) ELSE x

\* Mutant of WriteIndexData: the base vertex is not added.
WriteIndexData_NoBaseVertex(Src, DstSize, NumElements, BaseVertex) ==
    [i \in 1..NumElements |-> CastToDst(DstSize, Src[i])]

\* DstInd = static_cast<DstType>(SrcInd + BaseVertex), for every element.
WriteIndexData(Src, DstSize, NumElements, BaseVertex) ==
    [i \in 1..NumElements |-> CastToDst(DstSize, Add32(Src[i], BaseVertex))]

SupportedIndexTypes == {"VT_UINT32", "VT_UINT16", "VT_UINT8"}

\* Mutant of ConvertIndexData: the converted indices are appended behind the
\* elements the resize added instead of written over them.
ConvertIndexData_AppendsAfterResize(IndexData, AccessorId, BaseVertex) ==
    LET GltfIndices == GetAccessor(AccessorId)
        IndexSize == IndexStride
        IndexCount == GltfIndices.Count
        Resized == IndexData \o [i \in 1..IndexCount |-> W(0)]
    IN  IF GltfIndices.ComponentType \in SupportedIndexTypes
        THEN [m_IndexData |-> Resized \o WriteIndexData(GltfIndices.Data, IndexSize, IndexCount, BaseVertex),
              IndexCount |-> IndexCount,
              asserts |-> <<>>]
        ELSE [m_IndexData |-> Resized,
              IndexCount |-> 0,
              asserts |-> <<"Index component type is not supported!">>]

\* ConvertIndexData: the index buffer is resized first (new elements are zero),
\* then written when the component type is supported; returns the index count,
\* or 0 after UNEXPECTED for any other component type.
ConvertIndexData(IndexData, AccessorId, BaseVertex) ==
    LET GltfIndices == GetAccessor(AccessorId)
        IndexSize == IndexStride
        IndexCount == GltfIndices.Count
        Resized == IndexData \o [i \in 1..IndexCount |-> W(0)]
    IN  IF GltfIndices.ComponentType \in SupportedIndexTypes
        THEN [m_IndexData |-> IndexData \o WriteIndexData(GltfIndices.Data, IndexSize, IndexCount, BaseVertex),
              IndexCount |-> IndexCount,
              asserts |-> <<>>]
        ELSE [m_IndexData |-> Resized,
              IndexCount |-> 0,
              asserts |-> <<"Index component type is not supported!">>]

(* -------------------------------------------------- Vertex Buffer Packer *)

\* Key.AccessorIds of a primitive: one accessor id per declared vertex
\* attribute, -1 when the primitive lacks the attribute.
PrimitiveKey(GltfPrimitive) ==
    [i \in 1..GetNumVertexAttributes |-> GetAttribute(GltfPrimitive, VertexAttributes[i].Name)]

\* m_ConvertedBuffers[Key]: operator[] default-constructs a missing entry.
ConvertedData(ConvertedBuffers, Key) ==
    IF Has(ConvertedBuffers, Key) THEN ConvertedBuffers[Key] ELSE [Offsets |-> <<>>]

\* Mutant of NeedsConversion: the memo entry is never consulted.
NeedsConversion_Always(Data) == TRUE

\* if (Data.Offsets.empty())
NeedsConversion(Data) == Data.Offsets = <<>>

\* Mutant of GrownSize: the buffer grows by one byte per vertex.
GrownSize_CountOnly(Size, VertexCount, Stride) == Size + VertexCount

\* The tail of vertex buffer i after ConvertVertexData grew it.
GrownSize(Size, VertexCount, Stride) == Size + VertexCount * Stride

\* Mutant of ConvertVertexData: every buffer grows by the stride of buffer 0.
ConvertVertexData_FirstStride(VertexData, VertexCount) ==
    LET n == Len(VertexData)
        Offsets == [i \in 1..n |-> VertexData[i]]
    IN  [Offsets |-> Offsets,
         m_VertexData |-> [i \in 1..n |-> GrownSize(VertexData[i], VertexCount, ElementStride(0))],
         asserts |-> IF \E i \in 1..n : Offsets[i] % ElementStride(i - 1) # 0
                     THEN <<"Current offset is not a multiple of the element stride">>
                     ELSE <<>>]

\* ConvertVertexData: record the tail of every vertex buffer as the key's
\* offset, check its alignment, and grow the buffer by VertexCount elements.
\* The bytes themselves are written by WriteGltfData.
ConvertVertexData(VertexData, VertexCount) ==
    LET n == Len(VertexData)
        Offsets == [i \in 1..n |-> VertexData[i]]
    IN  [Offsets |-> Offsets,
         m_VertexData |-> [i \in 1..n |-> GrownSize(VertexData[i], VertexCount, ElementStride(i - 1))],
         asserts |-> IF \E i \in 1..n : Offsets[i] % ElementStride(i - 1) # 0
                     THEN <<"Current offset is not a multiple of the element stride">>
                     ELSE <<>>]

(* ------------------------------------------------- Mesh/Primitive Loader *)

\* The state LoadMesh reads and writes, as one record.
MeshState ==
    [Meshes |-> Meshes, m_LoadedMeshes |-> m_LoadedMeshes, m_IndexData |-> m_IndexData,
     m_VertexData |-> m_VertexData, m_ConvertedBuffers |-> m_ConvertedBuffers,
     primLog |-> primLog, convertLog |-> convertLog, callbackLog |-> callbackLog,
     asserts |-> asserts]

\* Mesh(), BoundBox(): a freshly allocated mesh.
DefaultBB == [Min |-> <<0, 0, 0>>, Max |-> <<0, 0, 0>>]
DefaultMesh == [Name |-> <<>>, Primitives |-> <<>>, BB |-> DefaultBB]

\* Mutant of Float3Min: the smaller vector in lexicographic order.
Float3Min_Lexicographic(a, b) ==
    IF \/ b[1] < a[1]
       \/ b[1] = a[1] /\ b[2] < a[2]
       \/ b[1] = a[1] /\ b[2] = a[2] /\ b[3] < a[3]
    THEN b ELSE a

\* std::min / std::max of two float3: componentwise.
Float3Min(a, b) == [c \in 1..3 |-> Min2(a[c], b[c])]
Float3Max(a, b) == [c \in 1..3 |-> Max2(a[c], b[c])]

\* Mesh BB from BBs of primitives: starts from Primitives[0].BB and folds in
\* Primitives[1..]; prim is the 1-based position of the next primitive.
RECURSIVE FoldBB(_, _, _)
FoldBB(BB, Primitives, prim) ==
    IF prim > Len(Primitives) THEN BB
    ELSE FoldBB([Min |-> Float3Min(BB.Min, Primitives[prim].BB.Min),
                 Max |-> Float3Max(BB.Max, Primitives[prim].BB.Max)],
                Primitives, prim + 1)

MeshBB(OldBB, Primitives) ==
    IF Primitives # <<>> THEN FoldBB(Primitives[1].BB, Primitives, 2) ELSE OldBB

\* GltfPrimitive.GetMaterialId() >= 0 ? id : Materials.size() - 1
PrimitiveMaterial(GltfPrimitive) ==
    IF GltfPrimitive.MaterialId >= 0 THEN GltfPrimitive.MaterialId ELSE Len(Materials) - 1

\* One iteration of LoadMesh's loop over the source primitives.
LoadPrimitive(s, LoadedMeshId, GltfPrimitive) ==
    LET IndexStart == (Len(s.m_IndexData) * IndexStride) \div IndexStride
        Key == PrimitiveKey(GltfPrimitive)
        pPosAttribId == GetAttribute(GltfPrimitive, POSITION)
        PosAccessor == GetAccessor(pPosAttribId)
        VertexCount == PosAccessor.Count
        Data == ConvertedData(s.m_ConvertedBuffers, Key)
        Convert == NeedsConversion(Data)
        Conv == ConvertVertexData(s.m_VertexData, VertexCount)
        Offsets == IF Convert THEN Conv.Offsets ELSE Data.Offsets
        VertexStart == Offsets[1] \div ElementStride(0)
        HasIndices == GltfPrimitive.IndicesId >= 0
        Ind == ConvertIndexData(s.m_IndexData, GltfPrimitive.IndicesId, ToWord(VertexStart))
        IndexCount == IF HasIndices THEN Ind.IndexCount ELSE 0
        NewPrimitive == [FirstIndex |-> IndexStart, IndexCount |-> IndexCount,
                         VertexCount |-> VertexCount,
                         MaterialId |-> PrimitiveMaterial(GltfPrimitive),
                         BB |-> [Min |-> PosAccessor.Min, Max |-> PosAccessor.Max]]
        Mesh == s.Meshes[LoadedMeshId + 1]
        NewMesh == [Mesh EXCEPT !.Primitives = Append(@, NewPrimitive)]
    IN  [s EXCEPT
            !.Meshes = [@ EXCEPT ![LoadedMeshId + 1] = NewMesh],
            !.m_IndexData = IF HasIndices THEN Ind.m_IndexData ELSE @,
            !.m_VertexData = IF Convert THEN Conv.m_VertexData ELSE @,
            !.m_ConvertedBuffers = Assign(@, Key, [Offsets |-> Offsets]),
            !.primLog = Append(@, [Mesh |-> LoadedMeshId, Key |-> Key,
                                   VertexStart |-> VertexStart, IndexStart |-> IndexStart,
                                   IndexCount |-> IndexCount, VertexCount |-> VertexCount,
                                   IndicesId |-> GltfPrimitive.IndicesId]),
            !.convertLog = IF Convert THEN Append(@, [Key |-> Key, VertexCount |-> VertexCount,
                                                       Offsets |-> Offsets]) ELSE @,
            !.callbackLog = IF m_CI.PrimitiveLoadCallback
                            THEN Append(@, <<"PrimitiveLoadCallback", LoadedMeshId, Len(NewMesh.Primitives)>>)
                            ELSE @,
            !.asserts = @ \o (IF Convert THEN Conv.asserts ELSE <<>>)
                          \o (IF HasIndices THEN Ind.asserts ELSE <<>>)]

RECURSIVE LoadPrimitives(_, _, _, _)
LoadPrimitives(s, LoadedMeshId, GltfMesh, prim) ==
    IF prim > Len(GltfMesh) THEN s
    ELSE LoadPrimitives(LoadPrimitive(s, LoadedMeshId, GltfMesh[prim]), LoadedMeshId, GltfMesh, prim + 1)

\* Mutant of MeshAlreadyLoaded: the loaded set is never consulted.
MeshAlreadyLoaded_Never(LoadedMeshes, LoadedMeshId) == FALSE

\* if (m_LoadedMeshes.find(LoadedMeshId) != m_LoadedMeshes.end()) return &NewMesh;
MeshAlreadyLoaded(LoadedMeshes, LoadedMeshId) == LoadedMeshId \in LoadedMeshes

\* LoadMesh: [s |-> the state after the call, rv |-> the Mesh* returned].
LoadMesh(s, GltfMeshIndex) ==
    IF GltfMeshIndex < 0 THEN [s |-> s, rv |-> Null]
    ELSE IF ~Has(m_MeshIndexRemapping, GltfMeshIndex)
    THEN [s |-> [s EXCEPT !.asserts = Append(@, "Mesh is not present in the map")], rv |-> Null]
    ELSE
    LET LoadedMeshId == m_MeshIndexRemapping[GltfMeshIndex]
    IN  IF MeshAlreadyLoaded(s.m_LoadedMeshes, LoadedMeshId) THEN [s |-> s, rv |-> LoadedMeshId]
        ELSE
        LET GltfMesh == GetMesh(GltfMeshIndex)
            s1 == [s EXCEPT !.m_LoadedMeshes = @ \cup {LoadedMeshId},
                            !.Meshes = [@ EXCEPT ![LoadedMeshId + 1].Name = GltfMeshName(GltfMeshIndex)]]
            s2 == LoadPrimitives(s1, LoadedMeshId, GltfMesh, 1)
            Loaded == s2.Meshes[LoadedMeshId + 1]
            s3 == [s2 EXCEPT
                     !.Meshes = [@ EXCEPT ![LoadedMeshId + 1].BB = MeshBB(Loaded.BB, Loaded.Primitives)],
                     !.callbackLog = IF m_CI.MeshLoadCallback
                                     THEN Append(@, <<"MeshLoadCallback", LoadedMeshId, Len(Loaded.Primitives)>>)
                                     ELSE @]
        IN  [s |-> s3, rv |-> LoadedMeshId]

(* ---------------------------------------------------------- Camera Loader *)

DefaultCamera == [Name |-> <<>>, Type |-> "", Params |-> <<>>]

\* Mutant of LoadCamera: a negative camera id is looked up like any other.
LoadCamera_NoSignTest(Cams, LoadedCameras, GltfCameraIndex) ==
    LET Same == [Cameras |-> Cams, m_LoadedCameras |-> LoadedCameras, asserts |-> <<>>, rv |-> Null]
    IN  IF ~Has(m_CameraIndexRemapping, GltfCameraIndex)
        THEN [Same EXCEPT !.asserts = <<"Camera is not present in the map">>]
        ELSE
        LET LoadedCameraId == m_CameraIndexRemapping[GltfCameraIndex]
            GltfCam == GltfCamera(GltfCameraIndex)
            Known == GltfCam.Type \in {"perspective", "orthographic"}
        IN  IF LoadedCameraId \in LoadedCameras THEN [Same EXCEPT !.rv = LoadedCameraId]
            ELSE [Cameras |-> [Cams EXCEPT ![LoadedCameraId + 1] =
                                  [Name |-> GltfCam.Name,
                                   Type |-> IF Known THEN GltfCam.Type ELSE @.Type,
                                   Params |-> IF Known THEN GltfCam.Params ELSE @.Params]],
                  m_LoadedCameras |-> LoadedCameras \cup {LoadedCameraId},
                  asserts |-> IF Known THEN <<>> ELSE <<"Unexpected camera type">>,
                  rv |-> LoadedCameraId]

\* LoadCamera: [Cameras, m_LoadedCameras, asserts, rv] after the call.
LoadCamera(Cams, LoadedCameras, GltfCameraIndex) ==
    LET Same == [Cameras |-> Cams, m_LoadedCameras |-> LoadedCameras, asserts |-> <<>>, rv |-> Null]
    IN  IF GltfCameraIndex < 0 THEN Same
        ELSE IF ~Has(m_CameraIndexRemapping, GltfCameraIndex)
        THEN [Same EXCEPT !.asserts = <<"Camera is not present in the map">>]
        ELSE
        LET LoadedCameraId == m_CameraIndexRemapping[GltfCameraIndex]
            GltfCam == GltfCamera(GltfCameraIndex)
            Known == GltfCam.Type \in {"perspective", "orthographic"}
        IN  IF LoadedCameraId \in LoadedCameras THEN [Same EXCEPT !.rv = LoadedCameraId]
            ELSE [Cameras |-> [Cams EXCEPT ![LoadedCameraId + 1] =
                                  [Name |-> GltfCam.Name,
                                   Type |-> IF Known THEN GltfCam.Type ELSE @.Type,
                                   Params |-> IF Known THEN GltfCam.Params ELSE @.Params]],
                  m_LoadedCameras |-> LoadedCameras \cup {LoadedCameraId},
                  asserts |-> IF Known THEN <<>> ELSE <<"Unexpected camera type">>,
                  rv |-> LoadedCameraId]

(* -------------------------------------------------------- the call stack *)

\* A frame of Execute, AllocateNode or LoadNode: its arguments, its locals
\* (LoadedNodeId, the 1-based position child of its loop) and where it stands.
Frame(fn, node, parent, pc) ==
    [fn |-> fn, GltfNodeIndex |-> node, LoadedNodeId |-> Null, Parent |-> parent,
     child |-> 1, pc |-> pc]

Top == stack[Len(stack)]
Running(fn, pc) == stack # <<>> /\ Top.fn = fn /\ Top.pc = pc
SetTop(f) == [stack EXCEPT ![Len(stack)] = f]
Call(callerFrame, calleeFrame) == Append(SetTop(callerFrame), calleeFrame)
Return == SubSeq(stack, 1, Len(stack) - 1)

\* Where Execute stands: "alloc", "load", "await", "done" or "failed".
ExecutePc == stack[1].pc

(* ------------------------------------------- Node/Mesh/Camera Allocator *)

\* Node(NodeId): a freshly allocated node; transforms keep their defaults
\* (written Default) until LoadNode overwrites them.
Default == <<>>

\* Mutant of NewNode: the node is constructed with a 1-based index.
NewNode_OneBased(NodeId) ==
    [Index |-> NodeId + 1, Name |-> <<>>, Parent |-> Null, Children |-> <<>>,
     pMesh |-> Null, pCamera |-> Null, pSkin |-> Null, SkinTransformsIndex |-> Null,
     Translation |-> Default, Rotation |-> Default, Scale |-> Default, Matrix |-> Default]

NewNode(NodeId) ==
    [Index |-> NodeId, Name |-> <<>>, Parent |-> Null, Children |-> <<>>,
     pMesh |-> Null, pCamera |-> Null, pSkin |-> Null, SkinTransformsIndex |-> Null,
     Translation |-> Default, Rotation |-> Default, Scale |-> Default, Matrix |-> Default]

\* Mutant of NextSlot: the index of the last slot instead of the next one.
NextSlot_LastSlot(Arena) == IF Len(Arena) = 0 THEN 0 ELSE Len(Arena) - 1

\* static_cast<int>(m_Model.LinearNodes.size()), and likewise for meshes and cameras
NextSlot(Arena) == Len(Arena)

\* for (auto GltfNodeId : NodeIds) AllocateNode(GltfModel, GltfNodeId);
ExecuteAllocateRoot ==
    /\ Running("Execute", "alloc")
    /\ Top.child <= Len(NodeIds)
    /\ stack' = Call([Top EXCEPT !.child = @ + 1],
                     Frame("AllocateNode", NodeIds[Top.child], Null, "emplace"))
    /\ UNCHANGED <<inputs, LinearNodes, RootNodes, nodeTables, m_LoadedNodes, m_NodeIdToSkinId,
                   meshVars, cameraVars, animVars, ret, asserts>>

\* Mutant of AllocateNodeEmplace: the node gets a new index whether or not it
\* has one already.
AllocateNodeEmplace_NoGuard ==
    /\ Running("AllocateNode", "emplace")
    /\ m_NodeIndexRemapping' = Assign(m_NodeIndexRemapping, Top.GltfNodeIndex, NextSlot(LinearNodes))
    /\ LinearNodes' = Append(LinearNodes, NewNode(NextSlot(LinearNodes)))
    /\ stack' = SetTop([Top EXCEPT !.pc = "children"])
    /\ UNCHANGED <<inputs, RootNodes, m_MeshIndexRemapping, m_CameraIndexRemapping, m_LoadedNodes,
                   m_NodeIdToSkinId, meshVars, cameraVars, animVars, ret, asserts>>

\* AllocateNode, first block: reserve the next flattened index unless the
\* node has one already.
AllocateNodeEmplace ==
    /\ Running("AllocateNode", "emplace")
    /\ LET NodeId == NextSlot(LinearNodes)
           GltfNodeIndex == Top.GltfNodeIndex
       IN  IF Has(m_NodeIndexRemapping, GltfNodeIndex)
           THEN /\ stack' = Return
                /\ UNCHANGED <<m_NodeIndexRemapping, LinearNodes>>
           ELSE /\ m_NodeIndexRemapping' = Emplace(m_NodeIndexRemapping, GltfNodeIndex, NodeId)
                /\ LinearNodes' = Append(LinearNodes, NewNode(NodeId))
                /\ stack' = SetTop([Top EXCEPT !.pc = "children"])
    /\ UNCHANGED <<inputs, RootNodes, m_MeshIndexRemapping, m_CameraIndexRemapping, m_LoadedNodes,
                   m_NodeIdToSkinId, meshVars, cameraVars, animVars, ret, asserts>>

\* AllocateNode: the recursive call for the next child.
AllocateNodeChild ==
    /\ Running("AllocateNode", "children")
    /\ LET Children == GetNode(Top.GltfNodeIndex).Children
       IN  /\ Top.child <= Len(Children)
           /\ stack' = Call([Top EXCEPT !.child = @ + 1],
                            Frame("AllocateNode", Children[Top.child], Null, "emplace"))
    /\ UNCHANGED <<inputs, LinearNodes, RootNodes, nodeTables, m_LoadedNodes, m_NodeIdToSkinId,
                   meshVars, cameraVars, animVars, ret, asserts>>

\* Mutant of AllocateNodeAttach: no camera slot is reserved.
AllocateNodeAttach_MeshOnly ==
    /\ Running("AllocateNode", "children")
    /\ LET GltfNode == GetNode(Top.GltfNodeIndex)
           GltfMeshIndex == GltfNode.MeshId
           NewMesh == GltfMeshIndex >= 0 /\ ~Has(m_MeshIndexRemapping, GltfMeshIndex)
       IN  /\ Top.child > Len(GltfNode.Children)
           /\ m_MeshIndexRemapping' =
                  IF GltfMeshIndex >= 0
                  THEN Emplace(m_MeshIndexRemapping, GltfMeshIndex, NextSlot(Meshes))
                  ELSE m_MeshIndexRemapping
           /\ Meshes' = IF NewMesh THEN Append(Meshes, DefaultMesh) ELSE Meshes
           /\ UNCHANGED <<m_CameraIndexRemapping, Cameras>>
    /\ stack' = Return
    /\ UNCHANGED <<inputs, LinearNodes, RootNodes, m_NodeIndexRemapping, m_LoadedNodes,
                   m_NodeIdToSkinId, m_LoadedMeshes, m_IndexData, m_VertexData, m_ConvertedBuffers,
                   primLog, convertLog, callbackLog, m_LoadedCameras, animVars, ret, asserts>>

\* AllocateNode, after the children: reserve the node's mesh and camera slots.
AllocateNodeAttach ==
    /\ Running("AllocateNode", "children")
    /\ LET GltfNode == GetNode(Top.GltfNodeIndex)
           GltfMeshIndex == GltfNode.MeshId
           GltfCameraIndex == GltfNode.CameraId
           NewMesh == GltfMeshIndex >= 0 /\ ~Has(m_MeshIndexRemapping, GltfMeshIndex)
           NewCamera == GltfCameraIndex >= 0 /\ ~Has(m_CameraIndexRemapping, GltfCameraIndex)
       IN  /\ Top.child > Len(GltfNode.Children)
           /\ m_MeshIndexRemapping' =
                  IF GltfMeshIndex >= 0
                  THEN Emplace(m_MeshIndexRemapping, GltfMeshIndex, NextSlot(Meshes))
                  ELSE m_MeshIndexRemapping
           /\ Meshes' = IF NewMesh THEN Append(Meshes, DefaultMesh) ELSE Meshes
           /\ m_CameraIndexRemapping' =
                  IF GltfCameraIndex >= 0
                  THEN Emplace(m_CameraIndexRemapping, GltfCameraIndex, NextSlot(Cameras))
                  ELSE m_CameraIndexRemapping
           /\ Cameras' = IF NewCamera THEN Append(Cameras, DefaultCamera) ELSE Cameras
    /\ stack' = Return
    /\ UNCHANGED <<inputs, LinearNodes, RootNodes, m_NodeIndexRemapping, m_LoadedNodes,
                   m_NodeIdToSkinId, m_LoadedMeshes, m_IndexData, m_VertexData, m_ConvertedBuffers,
                   primLog, convertLog, callbackLog, m_LoadedCameras, animVars, ret, asserts>>

\* Mutant of ExecuteBeginLoad: the loader pass starts as soon as the first root
\* has been allocated.
ExecuteBeginLoad_AfterFirstRoot ==
    /\ Running("Execute", "alloc")
    /\ Top.child > 1
    /\ stack' = SetTop([Top EXCEPT !.pc = "load", !.child = 1])
    /\ UNCHANGED <<inputs, LinearNodes, RootNodes, nodeTables, m_LoadedNodes, m_NodeIdToSkinId,
                   meshVars, cameraVars, animVars, ret, asserts>>

\* Execute between the passes: shrink_to_fit, RootNodes.reserve.
ExecuteBeginLoad ==
    /\ Running("Execute", "alloc")
    /\ Top.child > Len(NodeIds)
    /\ stack' = SetTop([Top EXCEPT !.pc = "load", !.child = 1])
    /\ UNCHANGED <<inputs, LinearNodes, RootNodes, nodeTables, m_LoadedNodes, m_NodeIdToSkinId,
                   meshVars, cameraVars, animVars, ret, asserts>>

(* ----------------------------------------------------- Scene Graph Loader *)

\* A failed VERIFY on a remapping lookup: the failure is recorded and the
\* build goes no further.
Failed(message) ==
    /\ asserts' = Append(asserts, message)
    /\ stack' = <<[stack[1] EXCEPT !.pc = "failed"]>>

\* Mutant of NodeAlreadyLoaded: the loaded set is never consulted.
NodeAlreadyLoaded_Never(LoadedNodes, LoadedNodeId) == FALSE

\* if (m_LoadedNodes.find(LoadedNodeId) != m_LoadedNodes.end()) return &NewNode;
NodeAlreadyLoaded(LoadedNodes, LoadedNodeId) == LoadedNodeId \in LoadedNodes

\* The fields LoadNode writes before it visits the children: name, parent and
\* those of the four transform properties that have the expected size.
PopulatedNode(Node, Parent, GltfNodeIndex) ==
    [Node EXCEPT
        !.Name = GltfNodeName(GltfNodeIndex),
        !.Parent = Parent,
        !.Translation = IF Len(GltfTranslation(GltfNodeIndex)) = 3 THEN GltfTranslation(GltfNodeIndex) ELSE @,
        !.Rotation = IF Len(GltfRotation(GltfNodeIndex)) = 4 THEN GltfRotation(GltfNodeIndex) ELSE @,
        !.Scale = IF Len(GltfScale(GltfNodeIndex)) = 3 THEN GltfScale(GltfNodeIndex) ELSE @,
        !.Matrix = IF Len(GltfMatrix(GltfNodeIndex)) = 16 THEN GltfMatrix(GltfNodeIndex) ELSE @]

\* m_Model.RootNodes.push_back(LoadNode(GltfModel, nullptr, GltfNodeId)): the call
ExecuteLoadRoot ==
    /\ Running("Execute", "load")
    /\ Top.child <= Len(NodeIds)
    /\ stack' = Call([Top EXCEPT !.pc = "await"],
                     Frame("LoadNode", NodeIds[Top.child], Null, "enter"))
    /\ UNCHANGED <<inputs, LinearNodes, RootNodes, nodeTables, m_LoadedNodes, m_NodeIdToSkinId,
                   meshVars, cameraVars, animVars, ret, asserts>>

\* m_Model.RootNodes.push_back(...): the returned pointer is stored
ExecuteRootLoaded ==
    /\ Running("Execute", "await")
    /\ RootNodes' = Append(RootNodes, ret)
    /\ stack' = SetTop([Top EXCEPT !.pc = "load", !.child = @ + 1])
    /\ UNCHANGED <<inputs, LinearNodes, nodeTables, m_LoadedNodes, m_NodeIdToSkinId,
                   meshVars, cameraVars, animVars, ret, asserts>>

\* LoadNode up to the loop over the children: look the node up, return it if it
\* is loaded already, else mark it loaded and write name, parent, skin id and
\* transform.
LoadNodeEnter ==
    /\ Running("LoadNode", "enter")
    /\ LET GltfNodeIndex == Top.GltfNodeIndex
       IN  IF ~Has(m_NodeIndexRemapping, GltfNodeIndex)
           THEN /\ Failed("Node is not present in the map")
                /\ UNCHANGED <<LinearNodes, m_LoadedNodes, m_NodeIdToSkinId, ret>>
           ELSE
           LET LoadedNodeId == m_NodeIndexRemapping[GltfNodeIndex]
               NewNodeRef == NodeAt(LoadedNodeId)
           IN  /\ asserts' = IF NewNodeRef.Index = LoadedNodeId THEN asserts
                             ELSE Append(asserts, "NewNode.Index == LoadedNodeId")
               /\ IF NodeAlreadyLoaded(m_LoadedNodes, LoadedNodeId)
                  THEN /\ ret' = LoadedNodeId
                       /\ stack' = Return
                       /\ UNCHANGED <<LinearNodes, m_LoadedNodes, m_NodeIdToSkinId>>
                  ELSE /\ m_LoadedNodes' = m_LoadedNodes \cup {LoadedNodeId}
                       /\ LinearNodes' = [LinearNodes EXCEPT ![LoadedNodeId + 1] =
                                             PopulatedNode(@, Top.Parent, GltfNodeIndex)]
                       /\ m_NodeIdToSkinId' = Assign(m_NodeIdToSkinId, LoadedNodeId,
                                                     GetNode(GltfNodeIndex).SkinId)
                       /\ stack' = SetTop([Top EXCEPT !.LoadedNodeId = LoadedNodeId,
                                                      !.pc = "children"])
                       /\ UNCHANGED ret
    /\ UNCHANGED <<inputs, RootNodes, nodeTables, meshVars, cameraVars, animVars>>

\* Mutant of LoadNodeChild: the child is passed over without being loaded.
LoadNodeChild_SkipsChild ==
    /\ Running("LoadNode", "children")
    /\ Top.child <= Len(GetNode(Top.GltfNodeIndex).Children)
    /\ stack' = SetTop([Top EXCEPT !.child = @ + 1])
    /\ UNCHANGED <<inputs, LinearNodes, RootNodes, nodeTables, m_LoadedNodes, m_NodeIdToSkinId,
                   meshVars, cameraVars, animVars, ret, asserts>>

\* NewNode.Children.push_back(LoadNode(GltfModel, &NewNode, ChildNodeIdx)): the call
LoadNodeChild ==
    /\ Running("LoadNode", "children")
    /\ LET Children == GetNode(Top.GltfNodeIndex).Children
       IN  /\ Top.child <= Len(Children)
           /\ stack' = Call([Top EXCEPT !.pc = "await"],
                            Frame("LoadNode", Children[Top.child], Top.LoadedNodeId, "enter"))
    /\ UNCHANGED <<inputs, LinearNodes, RootNodes, nodeTables, m_LoadedNodes, m_NodeIdToSkinId,
                   meshVars, cameraVars, animVars, ret, asserts>>

\* NewNode.Children.push_back(...): the returned pointer is stored
LoadNodeChildLoaded ==
    /\ Running("LoadNode", "await")
    /\ LinearNodes' = [LinearNodes EXCEPT ![Top.LoadedNodeId + 1].Children = Append(@, ret)]
    /\ stack' = SetTop([Top EXCEPT !.pc = "children", !.child = @ + 1])
    /\ UNCHANGED <<inputs, RootNodes, nodeTables, m_LoadedNodes, m_NodeIdToSkinId,
                   meshVars, cameraVars, animVars, ret, asserts>>

\* Mutant of LoadNodeAttach: the mesh and the camera are attached, and the
\* node returned, without waiting for the loop over the children to end.
LoadNodeAttach_NoWait ==
    /\ Running("LoadNode", "children")
    /\ LET GltfNode == GetNode(Top.GltfNodeIndex)
           M == LoadMesh(MeshState, GltfNode.MeshId)
           C == LoadCamera(Cameras, m_LoadedCameras, GltfNode.CameraId)
       IN  /\ Top.child >= 1
           /\ Meshes' = M.s.Meshes
           /\ m_LoadedMeshes' = M.s.m_LoadedMeshes
           /\ m_IndexData' = M.s.m_IndexData
           /\ m_VertexData' = M.s.m_VertexData
           /\ m_ConvertedBuffers' = M.s.m_ConvertedBuffers
           /\ primLog' = M.s.primLog
           /\ convertLog' = M.s.convertLog
           /\ callbackLog' = M.s.callbackLog
           /\ Cameras' = C.Cameras
           /\ m_LoadedCameras' = C.m_LoadedCameras
           /\ asserts' = M.s.asserts \o C.asserts
           /\ LinearNodes' = [LinearNodes EXCEPT ![Top.LoadedNodeId + 1].pMesh = M.rv,
                                                 ![Top.LoadedNodeId + 1].pCamera = C.rv]
           /\ ret' = Top.LoadedNodeId
    /\ stack' = Return
    /\ UNCHANGED <<inputs, RootNodes, nodeTables, m_LoadedNodes, m_NodeIdToSkinId, animVars>>

\* LoadNode after the children: attach the mesh and the camera, return &NewNode.
LoadNodeAttach ==
    /\ Running("LoadNode", "children")
    /\ LET GltfNode == GetNode(Top.GltfNodeIndex)
           M == LoadMesh(MeshState, GltfNode.MeshId)
           C == LoadCamera(Cameras, m_LoadedCameras, GltfNode.CameraId)
       IN  /\ Top.child > Len(GltfNode.Children)
           /\ Meshes' = M.s.Meshes
           /\ m_LoadedMeshes' = M.s.m_LoadedMeshes
           /\ m_IndexData' = M.s.m_IndexData
           /\ m_VertexData' = M.s.m_VertexData
           /\ m_ConvertedBuffers' = M.s.m_ConvertedBuffers
           /\ primLog' = M.s.primLog
           /\ convertLog' = M.s.convertLog
           /\ callbackLog' = M.s.callbackLog
           /\ Cameras' = C.Cameras
           /\ m_LoadedCameras' = C.m_LoadedCameras
           /\ asserts' = M.s.asserts \o C.asserts
           /\ LinearNodes' = [LinearNodes EXCEPT ![Top.LoadedNodeId + 1].pMesh = M.rv,
                                                 ![Top.LoadedNodeId + 1].pCamera = C.rv]
           /\ ret' = Top.LoadedNodeId
    /\ stack' = Return
    /\ UNCHANGED <<inputs, RootNodes, nodeTables, m_LoadedNodes, m_NodeIdToSkinId, animVars>>

(* ------------------------------------------------ Skin & Animation Loader *)

\* Mutant of NodeFromGltfIndex: the source id is taken for the flattened index.
NodeFromGltfIndex_Unmapped(GltfIndex) ==
    IF Has(m_NodeIndexRemapping, GltfIndex) THEN GltfIndex ELSE Null

\* NodeFromGltfIndex: the flattened node of a source node id, or nullptr.
NodeFromGltfIndex(GltfIndex) ==
    IF Has(m_NodeIndexRemapping, GltfIndex) THEN m_NodeIndexRemapping[GltfIndex] ELSE Null

\* strncmp(a, b, n) == 0 on NUL-terminated strings.
CStr(str) == str \o <<"NUL">>
Prefix(str, n) == SubSeq(str, 1, Min2(n, Len(str)))
\* Mutant of StrNCmpEq: one character fewer is compared.
StrNCmpEq_OneShort(a, b, n) == Prefix(CStr(a), n - 1) = Prefix(CStr(b), n - 1)

StrNCmpEq(a, b, n) == Prefix(CStr(a), n) = Prefix(CStr(b), n)

WEIGHTS == <<"W", "E", "I", "G", "H", "T", "S">>
JOINTS == <<"J", "O", "I", "N", "T", "S">>

\* The loop at the head of LoadAnimationAndSkin.
UsesAnimation ==
    \E i \in 1..GetNumVertexAttributes :
        \/ StrNCmpEq(VertexAttributes[i].Name, WEIGHTS, 7)
        \/ StrNCmpEq(VertexAttributes[i].Name, JOINTS, 6)

\* Animation(): the time range a freshly constructed animation starts from.
FloatMax == 1000 * 1000
AnimationStartDefault == FloatMax
AnimationEndDefault == 0 - FloatMax

\* Mutant of ScanInputs: End is compared only when Start was not lowered.
RECURSIVE ScanInputs_ElseIf(_, _, _)
ScanInputs_ElseIf(range, Inputs, i) ==
    IF i > Len(Inputs) THEN range
    ELSE ScanInputs_ElseIf(
             IF Inputs[i] < range.Start THEN [range EXCEPT !.Start = Inputs[i]]
             ELSE IF Inputs[i] > range.End THEN [range EXCEPT !.End = Inputs[i]]
             ELSE range,
             Inputs, i + 1)

\* for (auto input : AnimSampler.Inputs): widen [Start, End] by every input.
RECURSIVE ScanInputs(_, _, _)
ScanInputs(range, Inputs, i) ==
    IF i > Len(Inputs) THEN range
    ELSE ScanInputs([Start |-> IF Inputs[i] < range.Start THEN Inputs[i] ELSE range.Start,
                     End |-> IF Inputs[i] > range.End THEN Inputs[i] ELSE range.End],
                    Inputs, i + 1)

\* Sampler outputs promoted to float4; other component counts leave them empty.
OutputsVec4(GltfOutputs) ==
    CASE GltfOutputs.NumComponents = 3 ->
            [i \in 1..GltfOutputs.Count |-> GltfOutputs.Data[i] \o <<0>>]
      [] GltfOutputs.NumComponents = 4 ->
            [i \in 1..GltfOutputs.Count |-> GltfOutputs.Data[i]]
      [] OTHER -> <<>>

LoadSampler(GltfSam) ==
    [Interpolation |-> GltfSam.Interpolation,
     Inputs |-> GetAccessor(GltfSam.InputId).Data,
     OutputsVec4 |-> OutputsVec4(GetAccessor(GltfSam.OutputId))]

\* The loop over the samplers: Anim with every sampler appended and the time
\* range widened.
RECURSIVE LoadSamplers(_, _, _)
LoadSamplers(Anim, GltfSamplers, sam) ==
    IF sam > Len(GltfSamplers) THEN Anim
    ELSE LET AnimSampler == LoadSampler(GltfSamplers[sam])
             range == ScanInputs([Start |-> Anim.Start, End |-> Anim.End], AnimSampler.Inputs, 1)
         IN  LoadSamplers([Anim EXCEPT !.Samplers = Append(@, AnimSampler),
                                       !.Start = range.Start, !.End = range.End],
                          GltfSamplers, sam + 1)

\* The four tests that make LoadAnimations skip a channel, negated.
ChannelAccepted(GltfChannel) ==
    /\ GltfChannel.PathType # "WEIGHTS"
    /\ GltfChannel.SamplerId >= 0
    /\ GltfChannel.TargetNodeId >= 0
    /\ NodeFromGltfIndex(GltfChannel.TargetNodeId) # Null

\* The loop over the channels.
RECURSIVE LoadChannels(_, _, _)
LoadChannels(Channels, GltfChannels, chnl) ==
    IF chnl > Len(GltfChannels) THEN Channels
    ELSE LET GltfChannel == GltfChannels[chnl]
         IN  LoadChannels(
                 IF ChannelAccepted(GltfChannel)
                 THEN Append(Channels, [PathType |-> GltfChannel.PathType,
                                         pNode |-> NodeFromGltfIndex(GltfChannel.TargetNodeId),
                                         SamplerIndex |-> GltfChannel.SamplerId])
                 ELSE Channels,
                 GltfChannels, chnl + 1)

\* LoadAnimations: m_Model.Animations after the call (anim is 0-based).
LoadAnimation(anim) ==
    LET GltfAnim == GltfModel.Animations[anim + 1]
        Named == [Name |-> IF GltfAnim.Name = <<>> THEN <<DigitChars[anim + 1]>> ELSE GltfAnim.Name,
                  Samplers |-> <<>>, Channels |-> <<>>,
                  Start |-> AnimationStartDefault, End |-> AnimationEndDefault]
        Sampled == LoadSamplers(Named, GltfAnim.Samplers, 1)
    IN  [Sampled EXCEPT !.Channels = LoadChannels(<<>>, GltfAnim.Channels, 1)]

LoadAnimations == [a \in 1..Len(GltfModel.Animations) |-> LoadAnimation(a - 1)]

\* The joint loop of LoadSkins: the joints that resolve to a node, in order.
RECURSIVE LoadJoints(_, _, _)
LoadJoints(Joints, JointIds, j) ==
    IF j > Len(JointIds) THEN Joints
    ELSE LoadJoints(IF NodeFromGltfIndex(JointIds[j]) # Null
                    THEN Append(Joints, NodeFromGltfIndex(JointIds[j]))
                    ELSE Joints,
                    JointIds, j + 1)

LoadSkin(GltfSkin) ==
    [Name |-> GltfSkin.Name,
     pSkeletonRoot |-> IF GltfSkin.SkeletonId >= 0 THEN NodeFromGltfIndex(GltfSkin.SkeletonId) ELSE Null,
     Joints |-> LoadJoints(<<>>, GltfSkin.JointIds, 1),
     InverseBindMatrices |-> IF GltfSkin.InverseBindMatricesId >= 0
                             THEN GetAccessor(GltfSkin.InverseBindMatricesId).Data
                             ELSE <<>>]

\* LoadSkins: m_Model.Skins after the call.
LoadSkins == [i \in 1..Len(GltfModel.Skins) |-> LoadSkin(GltfModel.Skins[i])]

\* Mutant of AssignSkins: the slot of a node is its own index.
RECURSIVE AssignSkins_SlotIsNodeIndex(_, _)
AssignSkins_SlotIsNodeIndex(a, i) ==
    IF i >= Len(a.LinearNodes) THEN a
    ELSE IF Has(m_NodeIdToSkinId, i) /\ m_NodeIdToSkinId[i] >= 0
         THEN AssignSkins_SlotIsNodeIndex(
                  [a EXCEPT !.LinearNodes[i + 1].pSkin = m_NodeIdToSkinId[i],
                            !.LinearNodes[i + 1].SkinTransformsIndex = i,
                            !.SkinTransformsCount = @ + 1], i + 1)
         ELSE AssignSkins_SlotIsNodeIndex(a, i + 1)

\* The "Assign skins" loop from node i (0-based) on: the node arena, the skin
\* transform counter and the failures raised.
RECURSIVE AssignSkins(_, _)
AssignSkins(a, i) ==
    IF i >= Len(a.LinearNodes) THEN a
    ELSE IF Has(m_NodeIdToSkinId, i)
         THEN LET SkinIndex == m_NodeIdToSkinId[i]
              IN  IF SkinIndex >= 0
                  THEN AssignSkins([a EXCEPT !.LinearNodes[i + 1].pSkin = SkinIndex,
                                             !.LinearNodes[i + 1].SkinTransformsIndex = a.SkinTransformsCount,
                                             !.SkinTransformsCount = @ + 1], i + 1)
                  ELSE AssignSkins(a, i + 1)
         ELSE AssignSkins([a EXCEPT !.asserts = Append(@, "Node has no assigned skin id")], i + 1)

\* LoadAnimationAndSkin(GltfModel), the last step of Execute this model follows
\* (InitBuffers and PrepareGPUResources hand the result to the device).
ExecuteLoadAnimationAndSkin ==
    /\ Running("Execute", "load")
    /\ Top.child > Len(NodeIds)
    /\ IF ~UsesAnimation
       THEN UNCHANGED <<LinearNodes, animVars, asserts>>
       ELSE LET a == AssignSkins([LinearNodes |-> LinearNodes,
                                  SkinTransformsCount |-> SkinTransformsCount,
                                  asserts |-> asserts], 0)
            IN  /\ Animations' = LoadAnimations
                /\ Skins' = LoadSkins
                /\ LinearNodes' = a.LinearNodes
                /\ SkinTransformsCount' = a.SkinTransformsCount
                /\ asserts' = a.asserts
    /\ stack' = SetTop([Top EXCEPT !.pc = "done"])
    /\ UNCHANGED <<inputs, RootNodes, nodeTables, m_LoadedNodes, m_NodeIdToSkinId,
                   meshVars, cameraVars, ret>>

(* ------------------------------------------------------------ the scenes *)

\* What a source node refers to besides its children.
Attach(mesh, camera, skin) == [MeshId |-> mesh, CameraId |-> camera, SkinId |-> skin]

\* Every node shares mesh 0, camera 0 and skin 0.
AttachShared == [n \in GltfNodeIds |-> Attach(0, 0, 0)]

\* Node 0 has no mesh; the others alternate between meshes 1 and 0. Camera ids
\* are absent (negative), valid, or of an unexpected projection kind.
AttachMixed ==
    [n \in GltfNodeIds |->
        Attach(IF n = 0 THEN Null ELSE n % 2,
               IF n % 3 = 0 THEN 1 ELSE IF n % 3 = 1 THEN 0 - 2 ELSE 2,
               IF n % 2 = 1 THEN 1 ELSE Null)]

GltfSkinA == [Name |-> <<"s", "0">>, SkeletonId |-> 0, JointIds |-> <<1, NumNodes, 0>>,
              InverseBindMatricesId |-> 30]
GltfSkinB == [Name |-> <<"s", "1">>, SkeletonId |-> Null, JointIds |-> <<NumNodes - 1>>,
              InverseBindMatricesId |-> Null]

SamplerLinear == [Interpolation |-> "LINEAR", InputId |-> 20, OutputId |-> 22]
SamplerStep == [Interpolation |-> "STEP", InputId |-> 21, OutputId |-> 23]
SamplerCubic == [Interpolation |-> "CUBICSPLINE", InputId |-> 21, OutputId |-> 24]

Channel(path, sampler, node) == [PathType |-> path, SamplerId |-> sampler, TargetNodeId |-> node]

GltfAnimWalk ==
    [Name |-> <<"w", "a", "l", "k">>, Samplers |-> <<SamplerLinear, SamplerStep>>,
     Channels |-> <<Channel("TRANSLATION", 0, 0), Channel("WEIGHTS", 1, 0),
                    Channel("ROTATION", 1, NumNodes - 1)>>]
GltfAnimUnnamed ==
    [Name |-> <<>>, Samplers |-> <<SamplerCubic>>, Channels |-> <<Channel("SCALE", 0, 1)>>]

\* The state after the constructor, for one scene and one configuration.
Setup(children, roots, attach, meshes, skins, anims, layout, indexSize, callbacks) ==
    /\ GltfModel = [Nodes |-> [k \in 1..NumNodes |->
                                 [Children |-> children[k], MeshId |-> attach[k - 1].MeshId,
                                  CameraId |-> attach[k - 1].CameraId, SkinId |-> attach[k - 1].SkinId]],
                    Meshes |-> meshes,
                    Skins |-> skins, Animations |-> anims]
    /\ NodeIds = roots
    /\ m_CI = [PrimitiveLoadCallback |-> callbacks, MeshLoadCallback |-> callbacks]
    /\ VertexAttributes = layout.VertexAttributes
    /\ Buffers = layout.Strides \o <<indexSize>>
    /\ LinearNodes = <<>>
    /\ Meshes = <<>>
    /\ Cameras = <<>>
    /\ RootNodes = <<>>
    /\ Skins = <<>>
    /\ Animations = <<>>
    /\ SkinTransformsCount = 0
    /\ m_NodeIndexRemapping = EmptyMap
    /\ m_MeshIndexRemapping = EmptyMap
    /\ m_CameraIndexRemapping = EmptyMap
    /\ m_LoadedNodes = {}
    /\ m_LoadedMeshes = {}
    /\ m_LoadedCameras = {}
    /\ m_NodeIdToSkinId = EmptyMap
    /\ m_IndexData = <<>>
    /\ m_VertexData = [i \in 1..Len(layout.Strides) |-> 0]
    /\ m_ConvertedBuffers = EmptyMap
    /\ stack = <<Frame("Execute", Null, Null, "alloc")>>
    /\ ret = Null
    /\ primLog = <<>>
    /\ convertLog = <<>>
    /\ callbackLog = <<>>
    /\ asserts = <<>>

\* Any scene graph and root list of the graph family, with two ways of
\* attaching meshes, cameras and skins to the nodes.
Init ==
    \E g \in GraphFamily, attach \in {AttachShared, AttachMixed} :
        Setup(g[1], g[2], attach, <<<<PrimA, PrimB>>, <<PrimC, PrimD>>>>,
              <<GltfSkinA, GltfSkinB>>, <<GltfAnimWalk, GltfAnimUnnamed>>,
              LayoutSkinned, 4, TRUE)

\* The source meshes 0..n-1: any lists of catalogue primitives with at most
\* budget primitives in all.
RECURSIVE MeshLists(_, _)
MeshLists(n, budget) ==
    IF n = 0 THEN {<<>>}
    ELSE UNION {{Append(g, c) : g \in MeshLists(n - 1, budget - Len(c))} :
                c \in SeqsUpTo(PrimCatalogue, budget)}

\* Node 0 is the parent of all other nodes.
StarChildren == [k \in 1..NumNodes |-> IF k = 1 THEN [i \in 1..(NumNodes - 1) |-> i] ELSE <<>>]

\* Node n refers to mesh n % 2, so a mesh is shared as soon as there are three nodes.
AttachMeshes == [n \in GltfNodeIds |-> Attach(n % 2, Null, Null)]

\* One star-shaped scene, any two source meshes of the mesh family, loaded
\* under several vertex layouts, both index widths, with and without hooks.
InitMesh ==
    \E meshes \in MeshLists(2, MaxPrims), layout \in {LayoutP, LayoutPN, LayoutWeights},
       indexSize \in IndexSizes, callbacks \in BOOLEAN :
        Setup(StarChildren, <<0>>, AttachMeshes, meshes, <<GltfSkinA>>, <<GltfAnimUnnamed>>,
              layout, indexSize, callbacks)

\* The channels a source animation is built from: well-formed ones, a weights
\* path, sampler ids that are negative or too large, targets that are negative,
\* never allocated, or no node of the source at all.
ChannelCatalogue ==
    {Channel("TRANSLATION", 0, 0), Channel("ROTATION", 1, 1), Channel("WEIGHTS", 0, 1),
     Channel("TRANSLATION", Null, 1), Channel("SCALE", 2, 1), Channel("ROTATION", 0, Null),
     Channel("SCALE", 0, NumNodes - 1), Channel("TRANSLATION", 0, NumNodes)}

SamplerFamily ==
    {<<>>, <<SamplerLinear>>, <<SamplerStep, SamplerLinear>>, <<SamplerLinear, SamplerStep>>,
     <<SamplerCubic, SamplerStep>>}

\* Node 0 has node 1 as its only child; the other nodes are never reached.
PairChildren == [k \in 1..NumNodes |-> IF k = 1 THEN <<1>> ELSE <<>>]

\* A two-node scene with a root list that reaches one or both nodes, any
\* animation of the channel and sampler families, with and without the
\* joint/weight vertex attributes.
InitAnim ==
    \E roots \in {<<0>>, <<1>>}, attach \in {AttachShared, AttachMixed},
       samplers \in SamplerFamily, channels \in SeqsUpTo(ChannelCatalogue, MaxChannels),
       layout \in {LayoutSkinned, LayoutNearMiss} :
        Setup(PairChildren, roots, attach, <<<<PrimA, PrimB>>, <<PrimC, PrimD>>>>,
              <<GltfSkinA, GltfSkinB>>,
              <<GltfAnimUnnamed, [Name |-> <<"a">>, Samplers |-> samplers, Channels |-> channels]>>,
              layout, 2, FALSE)

Next ==
    \/ ExecuteAllocateRoot
    \/ AllocateNodeEmplace
    \/ AllocateNodeChild
    \/ AllocateNodeAttach
    \/ ExecuteBeginLoad
    \/ ExecuteLoadRoot
    \/ ExecuteRootLoaded
    \/ LoadNodeEnter
    \/ LoadNodeChild
    \/ LoadNodeChildLoaded
    \/ LoadNodeAttach
    \/ ExecuteLoadAnimationAndSkin

\* Execute over the graph family.
Spec == Init /\ [][Next]_vars

\* Execute over the mesh family.
SpecMesh == InitMesh /\ [][Next]_vars

\* Execute over the animation family.
SpecAnim == InitAnim /\ [][Next]_vars

(* ------------------------------------------------------------- the claims *)

\* The children lists of the source, as ChildrenLists builds them.
SourceChildren == [k \in 1..NumNodes |-> GltfModel.Nodes[k].Children]

\* The source node ids the requested roots reach.
ReachableNodes == Reachable(SourceChildren, Range(NodeIds))

Injective(map) == \A a, b \in DOMAIN map : a # b => map[a] # map[b]

\* The source parents of node c.
ParentsOf(c) == {n \in GltfNodeIds : c \in Range(SourceChildren[n + 1])}

AllocatorDone == ExecutePc # "alloc"

\* C1: once the allocator pass is over, every source node reachable from the
\* roots has an entry in the node remapping table (and only those have one),
\* and at every moment no two source node ids share a flattened index.
C1_InjectiveRemapping ==
    /\ Injective(m_NodeIndexRemapping)
    /\ AllocatorDone => DOMAIN m_NodeIndexRemapping = ReachableNodes

\* C1 witness: the allocator pass is over for two roots, one of them a
\* descendant of the other, with a child shared by two allocated parents.
C1_Witness ==
    /\ AllocatorDone
    /\ Len(NodeIds) = 2
    /\ NodeIds[2] \in Range(SourceChildren[NodeIds[1] + 1])
    /\ \E c \in DOMAIN m_NodeIndexRemapping :
          \E a, b \in ParentsOf(c) : a # b /\ {a, b} \subseteq DOMAIN m_NodeIndexRemapping

\* The values of a remapping table are exactly the indices of the arena, each once.
TableMatchesArena(map, Arena) ==
    /\ Values(map) = 0..(Len(Arena) - 1)
    /\ Injective(map)

\* C5: from the moment the loader pass begins, every value of the node, mesh
\* and camera remapping tables is the index of an allocated slot, the values
\* of each table are exactly 0..size-1 of its arena, each used once, and the
\* node at flattened index k carries Index = k.
C5_TablesMatchArenas ==
    AllocatorDone =>
        /\ TableMatchesArena(m_NodeIndexRemapping, LinearNodes)
        /\ TableMatchesArena(m_MeshIndexRemapping, Meshes)
        /\ TableMatchesArena(m_CameraIndexRemapping, Cameras)
        /\ \A k \in 0..(Len(LinearNodes) - 1) : NodeAt(k).Index = k

\* C5 witness: the loader pass is about to begin with at least two nodes, two
\* meshes and two cameras allocated.
C5_Witness ==
    /\ Running("Execute", "load")
    /\ Top.child = 1
    /\ Len(LinearNodes) >= 2
    /\ Len(Meshes) >= 2
    /\ Len(Cameras) >= 2

\* The lengths of the three arenas.
ArenaSizes == <<Len(LinearNodes), Len(Meshes), Len(Cameras)>>

\* C6: every root is allocated before the first LoadNode call, and from then
\* on no step changes a remapping table or the length of an arena.
C6_TablesFrozenAfterAllocation ==
    /\ [](AllocatorDone => Range(NodeIds) \subseteq DOMAIN m_NodeIndexRemapping)
    /\ [][AllocatorDone => /\ AllocatorDone'
                           /\ nodeTables' = nodeTables
                           /\ ArenaSizes' = ArenaSizes]_vars

\* C6 witness: the build is complete, after a loader pass that loaded a mesh
\* and a camera and a skin pass that assigned a skin.
C6_Witness ==
    /\ ExecutePc = "done"
    /\ m_LoadedMeshes # {}
    /\ m_LoadedCameras # {}
    /\ SkinTransformsCount > 0

\* The fields LoadNode writes before it visits the children.
EarlyFields(k) ==
    <<NodeAt(k).Name, NodeAt(k).Parent, NodeAt(k).Translation, NodeAt(k).Rotation,
      NodeAt(k).Scale, NodeAt(k).Matrix, m_NodeIdToSkinId[k]>>

\* The LoadNode calls in progress that own node k (they passed the loaded test).
OwnersOf(k) ==
    {i \in 1..Len(stack) : stack[i].fn = "LoadNode" /\ stack[i].LoadedNodeId = k}

\* LoadNode was just entered for a node that is loaded already.
ReenteringLoadedNode ==
    /\ Running("LoadNode", "enter")
    /\ Has(m_NodeIndexRemapping, Top.GltfNodeIndex)
    /\ m_NodeIndexRemapping[Top.GltfNodeIndex] \in m_LoadedNodes

\* C7: a node is populated once.  A LoadNode call that reaches a loaded node
\* returns at once and changes no node; once a node is loaded its name, parent,
\* transform and skin-id record never change; its children, mesh and camera
\* are written only by the one call that loaded it (no node has two calls
\* visiting its children).
C7_PopulatedOnce ==
    /\ [](\A k \in m_LoadedNodes : Cardinality(OwnersOf(k)) <= 1)
    /\ [][/\ ReenteringLoadedNode =>
                /\ LinearNodes' = LinearNodes
                /\ m_NodeIdToSkinId' = m_NodeIdToSkinId
                /\ m_LoadedNodes' = m_LoadedNodes
                /\ stack' = Return
                /\ ret' = m_NodeIndexRemapping[Top.GltfNodeIndex]
          /\ \A k \in m_LoadedNodes :
                /\ k \in m_LoadedNodes'
                /\ EarlyFields(k)' = EarlyFields(k)
                /\ <<NodeAt(k).Children, NodeAt(k).pMesh, NodeAt(k).pCamera>>' #
                   <<NodeAt(k).Children, NodeAt(k).pMesh, NodeAt(k).pCamera>>
                   => Top.fn = "LoadNode" /\ Top.LoadedNodeId = k]_vars

\* C7 witness: a LoadNode call has just returned from a node it found loaded,
\* reached as a shared child while another node is being loaded.
C7_Witness ==
    /\ Running("LoadNode", "await")
    /\ ret \in m_LoadedNodes
    /\ ret # Top.LoadedNodeId
    /\ NodeAt(ret).Parent # Top.LoadedNodeId
    /\ NodeAt(ret).Parent # Null

(* --------------------------------------------- claims about the packers *)

RECURSIVE SumOver(_, _)
SumOver(f, D) ==
    IF D = {} THEN 0
    ELSE LET d == CHOOSE x \in D : TRUE IN f[d] + SumOver(f, D \ {d})

\* The positions of primLog whose key was not seen at an earlier position.
FirstSightings == {i \in 1..Len(primLog) : \A j \in 1..(i - 1) : primLog[j].Key # primLog[i].Key}

\* C2: ConvertVertexData runs exactly once per distinct deduplication key of
\* the primitives loaded so far; two primitives with the same key have the
\* same VertexStart; a primitive with a key seen before grows no vertex buffer
\* (every buffer holds just the vertices of the first sightings).
C2_ConvertOncePerKey ==
    /\ \A i, j \in 1..Len(convertLog) : i # j => convertLog[i].Key # convertLog[j].Key
    /\ {convertLog[i].Key : i \in 1..Len(convertLog)} = {primLog[i].Key : i \in 1..Len(primLog)}
    /\ \A i, j \in 1..Len(primLog) :
          primLog[i].Key = primLog[j].Key => primLog[i].VertexStart = primLog[j].VertexStart
    /\ \A b \in 1..Len(m_VertexData) :
          m_VertexData[b] =
              SumOver([i \in FirstSightings |-> primLog[i].VertexCount * ElementStride(b - 1)],
                      FirstSightings)

\* C2 witness: two meshes were loaded whose primitives have the same key and
\* a vertex count other than 0; the vertex data was converted once.
C2_Witness ==
    /\ ExecutePc = "done"
    /\ Len(primLog) = 2
    /\ primLog[1].Key = primLog[2].Key
    /\ primLog[1].Mesh # primLog[2].Mesh
    /\ primLog[1].VertexCount > 0
    /\ Len(convertLog) = 1
    /\ m_VertexData[1] > 0

\* source_index + base_vertex as an integer, in base-65536 digits <<d2, d1, d0>>.
ExactSum(src, base) ==
    LET lo == src[2] + (base % Half)
        hi == src[1] + (base \div Half) + (lo \div Half)
    IN  <<hi \div Half, hi % Half, lo % Half>>

\* The primitives whose indices ConvertIndexData wrote.
IndexedPrims ==
    {i \in 1..Len(primLog) :
        /\ primLog[i].IndicesId >= 0
        /\ GetAccessor(primLog[i].IndicesId).ComponentType \in SupportedIndexTypes}

\* Element e (1-based) of primitive i's index range, and its source index.
StoredIndex(i, e) == m_IndexData[primLog[i].IndexStart + e]
SourceIndex(i, e) == GetAccessor(primLog[i].IndicesId).Data[e]

\* C3 as stated: every stored index equals source_index + base_vertex exactly.
C3_ExactSum ==
    \A i \in IndexedPrims : \A e \in 1..primLog[i].IndexCount :
        <<0, StoredIndex(i, e)[1], StoredIndex(i, e)[2]>> =
            ExactSum(SourceIndex(i, e), primLog[i].VertexStart)

\* C3 amended: every stored index equals source_index + base_vertex reduced
\* modulo 2^16 (16-bit destination) or 2^32 (32-bit destination).
C3_SumModuloWidth ==
    \A i \in IndexedPrims : \A e \in 1..primLog[i].IndexCount :
        LET sum == ExactSum(SourceIndex(i, e), primLog[i].VertexStart)
        IN  StoredIndex(i, e) = IF IndexStride = 2 THEN <<0, sum[3]>> ELSE <<sum[2], sum[3]>>

\* C3 witness: indices were written with a base vertex other than 0, for both
\* a sum that fits the destination width and one that does not.
C3_Witness ==
    /\ ExecutePc = "done"
    /\ \E i \in IndexedPrims : \E e, f \in 1..primLog[i].IndexCount :
          /\ primLog[i].VertexStart > 0
          /\ <<0, StoredIndex(i, e)[1], StoredIndex(i, e)[2]>> =
                 ExactSum(SourceIndex(i, e), primLog[i].VertexStart)
          /\ <<0, StoredIndex(i, f)[1], StoredIndex(i, f)[2]>> #
                 ExactSum(SourceIndex(i, f), primLog[i].VertexStart)

\* The source mesh id of mesh slot m.
SourceMeshOf(m) == CHOOSE g \in DOMAIN m_MeshIndexRemapping : m_MeshIndexRemapping[g] = m

Count(seq, P(_)) == Cardinality({i \in 1..Len(seq) : P(seq[i])})

\* Mesh slot m was built exactly once: its primitives, its entries of the
\* primitive log and its callback invocations are those of one pass over the
\* source primitives.
BuiltOnce(m) ==
    LET n == Len(GetMesh(SourceMeshOf(m)))
        IsPrim(p) == p.Mesh = m
        IsPrimCallback(c) == c[1] = "PrimitiveLoadCallback" /\ c[2] = m
        IsMeshCallback(c) == c[1] = "MeshLoadCallback" /\ c[2] = m
    IN  /\ Len(Meshes[m + 1].Primitives) = n
        /\ Count(primLog, IsPrim) = n
        /\ Count(callbackLog, IsPrimCallback) = IF m_CI.PrimitiveLoadCallback THEN n ELSE 0
        /\ Count(callbackLog, IsMeshCallback) = IF m_CI.MeshLoadCallback THEN 1 ELSE 0

\* LoadNode is about to attach a mesh that is loaded already.
AttachingLoadedMesh ==
    /\ Running("LoadNode", "children")
    /\ Top.child > Len(GetNode(Top.GltfNodeIndex).Children)
    /\ GetNode(Top.GltfNodeIndex).MeshId >= 0
    /\ m_MeshIndexRemapping[GetNode(Top.GltfNodeIndex).MeshId] \in m_LoadedMeshes

\* C4: a source mesh id has one slot of the mesh arena however many nodes refer
\* to it, every loaded node's mesh reference is that slot, and the mesh is
\* built once: a later LoadMesh call for it leaves the meshes, the vertex and
\* index buffers, the memo table and the callback log as they are.
C4_SharedMeshLoadedOnce ==
    /\ [](AllocatorDone =>
            /\ TableMatchesArena(m_MeshIndexRemapping, Meshes)
            /\ \A m \in m_LoadedMeshes : BuiltOnce(m))
    /\ [](ExecutePc = "done" =>
            \A n \in DOMAIN m_NodeIndexRemapping :
                NodeAt(m_NodeIndexRemapping[n]).pMesh =
                    IF GetNode(n).MeshId >= 0 THEN m_MeshIndexRemapping[GetNode(n).MeshId] ELSE Null)
    /\ [][AttachingLoadedMesh =>
            /\ meshVars' = meshVars
            /\ LinearNodes'[Top.LoadedNodeId + 1].pMesh =
                   m_MeshIndexRemapping[GetNode(Top.GltfNodeIndex).MeshId]]_vars

\* C4 witness: the build is complete, two nodes refer to one mesh that has
\* primitives with indices, and the callbacks are set.
C4_Witness ==
    /\ ExecutePc = "done"
    /\ m_CI.MeshLoadCallback
    /\ \E j, k \in 0..(Len(LinearNodes) - 1) :
          /\ j # k
          /\ NodeAt(j).pMesh = NodeAt(k).pMesh
          /\ NodeAt(j).pMesh # Null
          /\ Len(Meshes[NodeAt(j).pMesh + 1].Primitives) = 2
          /\ Meshes[NodeAt(j).pMesh + 1].Primitives[1].IndexCount > 0

SetMin(S) == CHOOSE x \in S : \A y \in S : x <= y
SetMax(S) == CHOOSE x \in S : \A y \in S : x >= y

\* The declared bounds of the POSITION accessor of a source primitive.
DeclaredBox(GltfPrimitive) ==
    [Min |-> GetAccessor(GetAttribute(GltfPrimitive, POSITION)).Min,
     Max |-> GetAccessor(GetAttribute(GltfPrimitive, POSITION)).Max]

\* C9: every primitive's box is the declared min/max of its POSITION accessor;
\* a loaded mesh with primitives has, in every component, the least of their
\* minima and the greatest of their maxima; a mesh without primitives keeps
\* the default box.
C9_MeshBoundingBox ==
    \A m \in m_LoadedMeshes :
        LET Source == GetMesh(SourceMeshOf(m))
            Loaded == Meshes[m + 1]
            Boxes == {DeclaredBox(Source[i]) : i \in 1..Len(Source)}
        IN  /\ Len(Loaded.Primitives) = Len(Source)
            /\ \A i \in 1..Len(Source) : Loaded.Primitives[i].BB = DeclaredBox(Source[i])
            /\ IF Source = <<>> THEN Loaded.BB = DefaultBB
               ELSE \A c \in 1..3 :
                       /\ Loaded.BB.Min[c] = SetMin({B.Min[c] : B \in Boxes})
                       /\ Loaded.BB.Max[c] = SetMax({B.Max[c] : B \in Boxes})

\* C9 witness: a mesh without primitives is loaded, and so is a mesh of two
\* primitives whose box is the box of neither.
C9_Witness ==
    /\ \E m \in m_LoadedMeshes : Meshes[m + 1].Primitives = <<>>
    /\ \E m \in m_LoadedMeshes :
          /\ Len(Meshes[m + 1].Primitives) = 2
          /\ \A i \in 1..2 : Meshes[m + 1].Primitives[i].BB # Meshes[m + 1].BB

(* ------------------------------- claims about the skin/animation loader *)

StartsWith(str, head) == Len(str) >= Len(head) /\ SubSeq(str, 1, Len(head)) = head

\* No declared vertex attribute is a joint or a weight attribute.
NoSkinningAttributes ==
    \A i \in 1..Len(VertexAttributes) :
        /\ ~StartsWith(VertexAttributes[i].Name, JOINTS)
        /\ ~StartsWith(VertexAttributes[i].Name, WEIGHTS)

\* C8: when no declared vertex attribute is a joint or weight attribute, the
\* skins and animations of the model stay empty, no node gets a skin reference
\* or a skin transform slot, and the skin transform counter stays 0, in every
\* state up to and including the end of Execute.
C8_NoSkinningPassSkipped ==
    NoSkinningAttributes =>
        /\ Skins = <<>>
        /\ Animations = <<>>
        /\ SkinTransformsCount = 0
        /\ \A k \in 1..Len(LinearNodes) :
              LinearNodes[k].pSkin = Null /\ LinearNodes[k].SkinTransformsIndex = Null

\* C8 witness: Execute has finished for a layout whose attribute names only
\* resemble JOINTS and WEIGHTS, a node has a recorded skin id, and the source
\* holds skins and animations.
C8_Witness ==
    /\ ExecutePc = "done"
    /\ NoSkinningAttributes
    /\ \E i \in 1..Len(VertexAttributes) : VertexAttributes[i].Name = JOINT
    /\ \E k \in DOMAIN m_NodeIdToSkinId : m_NodeIdToSkinId[k] >= 0
    /\ GltfModel.Skins # <<>>
    /\ GltfModel.Animations # <<>>

\* The source channels a reader of the contract expects to be emitted, in
\* source order (sam is the sampler count of the animation).
RECURSIVE ValidChannels(_, _)
ValidChannels(GltfChannels, sam) ==
    IF GltfChannels = <<>> THEN <<>>
    ELSE LET c == Head(GltfChannels)
             rest == ValidChannels(Tail(GltfChannels), sam)
         IN  IF /\ c.PathType # "WEIGHTS"
                /\ c.SamplerId >= 0 /\ c.SamplerId < sam
                /\ c.TargetNodeId \in DOMAIN m_NodeIndexRemapping
             THEN <<[PathType |-> c.PathType,
                     pNode |-> m_NodeIndexRemapping[c.TargetNodeId],
                     SamplerIndex |-> c.SamplerId]>> \o rest
             ELSE rest

\* C10: every channel emitted into an animation has a non-weights path, a
\* sampler index within the animation's sampler list and a target that is an
\* allocated node; the emitted channels are the source channels that pass
\* these tests, in source order.
C10_EmittedChannelsValid ==
    \A a \in 1..Len(Animations) :
        /\ \A c \in 1..Len(Animations[a].Channels) :
              LET Chnl == Animations[a].Channels[c]
              IN  /\ Chnl.PathType # "WEIGHTS"
                  /\ Chnl.SamplerIndex >= 0
                  /\ Chnl.SamplerIndex < Len(Animations[a].Samplers)
                  /\ Chnl.pNode \in 0..(Len(LinearNodes) - 1)
        /\ Animations[a].Channels =
              ValidChannels(GltfModel.Animations[a].Channels, Len(GltfModel.Animations[a].Samplers))

\* C10 witness: animations were loaded from a source with a channel of each
\* skipped kind, and an emitted channel names a sampler the animation lacks.
C10_Witness ==
    /\ ExecutePc = "done"
    /\ \E a \in 1..Len(Animations) :
          /\ Len(Animations[a].Channels) < Len(GltfModel.Animations[a].Channels)
          /\ \E c \in 1..Len(Animations[a].Channels) :
                Animations[a].Channels[c].SamplerIndex >= Len(Animations[a].Samplers)

(* ------------------------------------------------ claims C11 and onward *)

Aligned(Offsets) == \A b \in 1..Len(Offsets) : Offsets[b] % ElementStride(b - 1) = 0

\* C11: every allocation offset ConvertVertexData records, for every vertex
\* buffer, is a multiple of the buffer's element stride, and so is every
\* buffer's size; the stride-alignment assertion never fails.
C11_OffsetsStrideAligned ==
    /\ \A i \in 1..Len(convertLog) : Aligned(convertLog[i].Offsets)
    /\ \A Key \in DOMAIN m_ConvertedBuffers : Aligned(m_ConvertedBuffers[Key].Offsets)
    /\ Aligned(m_VertexData)
    /\ "Current offset is not a multiple of the element stride" \notin Range(asserts)

\* C11 witness: ConvertVertexData ran twice, the second time at an offset
\* other than 0 in every buffer and for a vertex count of 0.
C11_Witness ==
    /\ Len(convertLog) = 2
    /\ convertLog[1].VertexCount > 0
    /\ convertLog[2].VertexCount = 0
    /\ \A b \in 1..Len(m_VertexData) : convertLog[2].Offsets[b] > 0

\* The flattened nodes whose recorded skin id is not negative.
SkinnedNodes ==
    {k \in 0..(Len(LinearNodes) - 1) : Has(m_NodeIdToSkinId, k) /\ m_NodeIdToSkinId[k] >= 0}

\* C12: once the skin/animation pass has run, exactly the nodes with a
\* non-negative recorded skin id have a skin reference (that skin) and a skin
\* transform slot; the slot of a node is the number of skinned nodes with a
\* smaller index (so the slots are distinct, consecutive from 0 and increase
\* with the node index), and the counter equals the number of skinned nodes.
\* Before the pass no node has either and the counter is 0.
C12_SkinSlotsSequential ==
    IF ExecutePc = "done" /\ ~NoSkinningAttributes
    THEN /\ \A k \in 0..(Len(LinearNodes) - 1) :
               IF k \in SkinnedNodes
               THEN /\ NodeAt(k).pSkin = m_NodeIdToSkinId[k]
                    /\ NodeAt(k).SkinTransformsIndex = Cardinality({j \in SkinnedNodes : j < k})
               ELSE /\ NodeAt(k).pSkin = Null
                    /\ NodeAt(k).SkinTransformsIndex = Null
         /\ SkinTransformsCount = Cardinality(SkinnedNodes)
    ELSE /\ \A k \in 0..(Len(LinearNodes) - 1) :
               NodeAt(k).pSkin = Null /\ NodeAt(k).SkinTransformsIndex = Null
         /\ SkinTransformsCount = 0

\* C12 witness: the pass has run over a node without a skin followed by a node
\* with a skin, which got slot 0.
C12_Witness ==
    /\ ExecutePc = "done"
    /\ ~NoSkinningAttributes
    /\ \E j, k \in 0..(Len(LinearNodes) - 1) :
          /\ j < k
          /\ j \notin SkinnedNodes
          /\ k \in SkinnedNodes
          /\ NodeAt(k).SkinTransformsIndex = 0
          /\ SkinTransformsCount = 1

\* ConvertIndexData met an index accessor of an unsupported component type.
UnsupportedIndexTypeMet == "Index component type is not supported!" \in Range(asserts)

\* Primitive i of the log has an index accessor of an unsupported type.
HasUnsupportedIndices(i) ==
    /\ primLog[i].IndicesId >= 0
    /\ GetAccessor(primLog[i].IndicesId).ComponentType \notin SupportedIndexTypes

\* C13: once ConvertIndexData has met an unsupported index component type the
\* build is over: no primitive is emitted after the one whose indices failed,
\* and Execute never runs to its end.
C13_UnsupportedIndexTypeFatal ==
    UnsupportedIndexTypeMet =>
        /\ \A i \in 1..Len(primLog) : HasUnsupportedIndices(i) => i = Len(primLog)
        /\ ExecutePc # "done"

\* C13 witness: Execute ran to its end although the first primitive had index
\* data of an unsupported type; that primitive was emitted with no indices and
\* the next one was emitted after it, behind the elements left in the buffer.
C13_Witness ==
    /\ ExecutePc = "done"
    /\ UnsupportedIndexTypeMet
    /\ Len(primLog) = 2
    /\ HasUnsupportedIndices(1)
    /\ primLog[1].IndexCount = 0
    /\ primLog[2].IndexCount > 0
    /\ primLog[2].IndexStart > primLog[1].IndexStart

\* All input timestamps of all samplers of source animation a (1-based).
Timestamps(a) ==
    UNION {Range(GetAccessor(GltfModel.Animations[a].Samplers[sam].InputId).Data) :
              sam \in 1..Len(GltfModel.Animations[a].Samplers)}

RECURSIVE AllocatedJoints(_)
AllocatedJoints(JointIds) ==
    IF JointIds = <<>> THEN <<>>
    ELSE (IF Head(JointIds) \in ReachableNodes
          THEN <<m_NodeIndexRemapping[Head(JointIds)]>> ELSE <<>>)
         \o AllocatedJoints(Tail(JointIds))

\* C15: the joint list of every loaded skin is the list of the flattened
\* nodes of those source joint ids that are reachable from the roots, in
\* source order; the other joint ids are dropped and Execute runs to its end.
C15_JointsResolved ==
    /\ ~NoSkinningAttributes /\ ExecutePc = "done" => Len(Skins) = Len(GltfModel.Skins)
    /\ Skins # <<>> => ExecutePc = "done"
    /\ \A s \in 1..Len(Skins) : Skins[s].Joints = AllocatedJoints(GltfModel.Skins[s].JointIds)

\* C15 witness: of the three joint ids of the first skin one is no node and
\* the other two were allocated in the opposite order of their ids; the only
\* joint of the second skin is a node that is not reachable from the roots.
C15_Witness ==
    /\ Len(Skins) = 2
    /\ Len(GltfModel.Skins[1].JointIds) = 3
    /\ Len(Skins[1].Joints) = 2
    /\ Skins[1].Joints[1] < Skins[1].Joints[2]
    /\ GltfModel.Skins[2].JointIds # <<>>
    /\ Skins[2].Joints = <<>>

\* AllocateNode, and LoadNode, are about to handle the mesh and the camera of
\* their node.
AllocatorAttaching ==
    /\ Running("AllocateNode", "children")
    /\ Top.child > Len(GetNode(Top.GltfNodeIndex).Children)
LoaderAttaching ==
    /\ Running("LoadNode", "children")
    /\ Top.child > Len(GetNode(Top.GltfNodeIndex).Children)

\* The failures LoadMesh, and LoadCamera, can record.
MeshMessages ==
    {"Mesh is not present in the map", "Index component type is not supported!",
     "Current offset is not a multiple of the element stride"}
CameraMessages == {"Camera is not present in the map", "Unexpected camera type"}

\* The failures the step records.
NewMessages == {asserts'[i] : i \in (Len(asserts) + 1)..Len(asserts')}

\* C16: a negative mesh (camera) id of a node is no key of the mesh (camera)
\* table; AllocateNode leaves the table and the arena as they are for it,
\* LoadNode leaves the mesh (camera) state as it is, records no mesh (camera)
\* failure and sets the node's reference to null, which it still is when
\* Execute has run to its end.
C16_NegativeIdsAbsent ==
    /\ [](\A g \in DOMAIN m_MeshIndexRemapping \cup DOMAIN m_CameraIndexRemapping : g >= 0)
    /\ [](ExecutePc = "done" =>
            \A n \in DOMAIN m_NodeIndexRemapping :
                /\ GetNode(n).MeshId < 0 => NodeAt(m_NodeIndexRemapping[n]).pMesh = Null
                /\ GetNode(n).CameraId < 0 => NodeAt(m_NodeIndexRemapping[n]).pCamera = Null)
    /\ [][AllocatorAttaching /\ GetNode(Top.GltfNodeIndex).MeshId < 0 =>
            UNCHANGED <<m_MeshIndexRemapping, Meshes>>]_vars
    /\ [][AllocatorAttaching /\ GetNode(Top.GltfNodeIndex).CameraId < 0 =>
            UNCHANGED <<m_CameraIndexRemapping, Cameras>>]_vars
    /\ [][LoaderAttaching /\ GetNode(Top.GltfNodeIndex).MeshId < 0 =>
            /\ UNCHANGED meshVars
            /\ NewMessages \cap MeshMessages = {}
            /\ LinearNodes'[Top.LoadedNodeId + 1].pMesh = Null]_vars
    /\ [][LoaderAttaching /\ GetNode(Top.GltfNodeIndex).CameraId < 0 =>
            /\ UNCHANGED cameraVars
            /\ NewMessages \cap CameraMessages = {}
            /\ LinearNodes'[Top.LoadedNodeId + 1].pCamera = Null]_vars

\* C16 witness: Execute has run to its end for a scene with a loaded node
\* without a mesh and a loaded node whose camera id is below -1, while other
\* nodes have a mesh and a camera.
C16_Witness ==
    /\ ExecutePc = "done"
    /\ \E n \in DOMAIN m_NodeIndexRemapping :
          GetNode(n).MeshId < 0 /\ NodeAt(m_NodeIndexRemapping[n]).pCamera # Null
    /\ \E n \in DOMAIN m_NodeIndexRemapping :
          GetNode(n).CameraId < 0 - 1 /\ NodeAt(m_NodeIndexRemapping[n]).pMesh # Null

\* The three failures of a remapping lookup.
LookupMisses ==
    {"Node is not present in the map", "Mesh is not present in the map",
     "Camera is not present in the map"}

\* C17: no remapping lookup of the loader pass misses: every node id a
\* LoadNode call was made with is a key of the node table, the non-negative
\* mesh and camera ids of every node being loaded are keys of their tables,
\* no lookup failure is ever recorded and the build is never abandoned.
C17_LookupsNeverMiss ==
    /\ Range(asserts) \cap LookupMisses = {}
    /\ ExecutePc # "failed"
    /\ \A f \in 1..Len(stack) :
          stack[f].fn = "LoadNode" =>
              /\ Has(m_NodeIndexRemapping, stack[f].GltfNodeIndex)
              /\ GetNode(stack[f].GltfNodeIndex).MeshId >= 0 =>
                    Has(m_MeshIndexRemapping, GetNode(stack[f].GltfNodeIndex).MeshId)
              /\ GetNode(stack[f].GltfNodeIndex).CameraId >= 0 =>
                    Has(m_CameraIndexRemapping, GetNode(stack[f].GltfNodeIndex).CameraId)

\* C17 witness: Execute has run to its end for a scene in which every source
\* node was loaded, a node has two parents or is a root below a root, and
\* meshes and cameras were looked up.
C17_Witness ==
    /\ ExecutePc = "done"
    /\ Cardinality(m_LoadedNodes) = NumNodes
    /\ Len(RootNodes) = 2
    /\ \E k \in 0..(Len(LinearNodes) - 1) : NodeAt(k).pMesh # Null /\ NodeAt(k).pCamera # Null
    /\ \E k \in 0..(Len(LinearNodes) - 1) : NodeAt(k).Parent # Null /\ k \in Range(RootNodes)

\* The LoadNode loop of Execute is over.
LoaderDone ==
    \/ ExecutePc = "done"
    \/ Running("Execute", "load") /\ Top.child > Len(NodeIds)

\* C18: the nodes with a recorded skin id are always the loaded nodes; when
\* the loader pass is over the loaded nodes are the allocated nodes, that is
\* every index of the node arena, and the skin assignment loop never records
\* a node without a skin id.
C18_LoadedEqualsAllocated ==
    /\ DOMAIN m_NodeIdToSkinId = m_LoadedNodes
    /\ m_LoadedNodes \subseteq Values(m_NodeIndexRemapping)
    /\ LoaderDone =>
          /\ m_LoadedNodes = Values(m_NodeIndexRemapping)
          /\ m_LoadedNodes = 0..(Len(LinearNodes) - 1)
    /\ "Node has no assigned skin id" \notin Range(asserts)

\* C18 witness: the skin assignment loop has run over an arena of all source
\* nodes, one of them a child of two parents, some with a negative skin id.
C18_Witness ==
    /\ ExecutePc = "done"
    /\ ~NoSkinningAttributes
    /\ Len(LinearNodes) = NumNodes
    /\ \E k \in DOMAIN m_NodeIdToSkinId : m_NodeIdToSkinId[k] < 0
    /\ \E c \in GltfNodeIds : Cardinality(ParentsOf(c)) = 2

\* The step takes the running AllocateNode (LoadNode) call past its guard, to
\* the loop over the children of its node.
AllocatorExpands ==
    /\ Running("AllocateNode", "emplace")
    /\ Len(stack') = Len(stack)
    /\ stack'[Len(stack)].pc = "children"
LoaderExpands ==
    /\ Running("LoadNode", "enter")
    /\ Len(stack') = Len(stack)
    /\ stack'[Len(stack)].pc = "children"

\* The source nodes that lie on a cycle of the children links.
OnCycle == {n \in GltfNodeIds : n \in Reachable(SourceChildren, Range(SourceChildren[n + 1]))}

\* The steps a frame has ahead of it, not counting those of the calls it has
\* yet to make beyond their first step: an allocator frame takes two steps
\* per remaining child (the call, the callee's guard) and one to return, a
\* loader frame three per child (the call, the callee's guard, storing the
\* result) and one to return; Execute runs the allocator loop, the step
\* between the passes, the loader loop and the skin/animation step.
Remaining(f, n) == n - f.child + 1
StepsAhead(f) ==
    LET Children == Len(GetNode(f.GltfNodeIndex).Children)
        Roots == Len(NodeIds)
    IN  CASE f.fn = "AllocateNode" /\ f.pc = "emplace" -> 1
          [] f.fn = "AllocateNode" /\ f.pc = "children" -> 2 * Remaining(f, Children) + 1
          [] f.fn = "LoadNode" /\ f.pc = "enter" -> 1
          [] f.fn = "LoadNode" /\ f.pc = "children" -> 3 * Remaining(f, Children) + 1
          [] f.fn = "LoadNode" /\ f.pc = "await" -> 3 * Remaining(f, Children) - 1
          [] f.fn = "Execute" /\ f.pc = "alloc" -> 2 * Remaining(f, Roots) + 1 + 3 * Roots + 1
          [] f.fn = "Execute" /\ f.pc = "load" -> 3 * Remaining(f, Roots) + 1
          [] f.fn = "Execute" /\ f.pc = "await" -> 3 * Remaining(f, Roots) - 1
          [] OTHER -> 0

\* The steps the first expansion of a reachable source node will add: those
\* of an allocator frame for a node not yet in the table, of a loader frame
\* for a node not yet loaded.
Unallocated == ReachableNodes \ DOMAIN m_NodeIndexRemapping
Unloaded ==
    {n \in ReachableNodes : ~Has(m_NodeIndexRemapping, n) \/ m_NodeIndexRemapping[n] \notin m_LoadedNodes}
StepsLeft ==
    SumOver([f \in 1..Len(stack) |-> StepsAhead(stack[f])], 1..Len(stack))
    + SumOver([n \in Unallocated |-> 2 * Len(SourceChildren[n + 1]) + 1], Unallocated)
    + SumOver([n \in Unloaded |-> 3 * Len(SourceChildren[n + 1]) + 1], Unloaded)

\* The guards of the actions of Next: the statement the running call stands
\* at, with either outcome of its loop test.
CanStep ==
    LET Children == Len(GetNode(Top.GltfNodeIndex).Children)
    IN  \/ Running("Execute", "alloc") /\ (Top.child <= Len(NodeIds) \/ Top.child > Len(NodeIds))
        \/ Running("AllocateNode", "emplace")
        \/ Running("AllocateNode", "children") /\ (Top.child <= Children \/ Top.child > Children)
        \/ Running("Execute", "load") /\ (Top.child <= Len(NodeIds) \/ Top.child > Len(NodeIds))
        \/ Running("Execute", "await")
        \/ Running("LoadNode", "enter")
        \/ Running("LoadNode", "children") /\ (Top.child <= Children \/ Top.child > Children)
        \/ Running("LoadNode", "await")

\* C19: Execute terminates for every graph of the family: the bound StepsLeft
\* is never negative, is 0 exactly when Execute has run to its end, every
\* step lowers it by one, and in every other state a step is possible. A
\* call of AllocateNode goes on to the children of its node only when the
\* node was not in the node table, and puts it there; a call of LoadNode goes on to the children only when the
\* node was not loaded, and marks it loaded; neither the table nor the loaded
\* set ever loses an element, so the children of a node are expanded at most
\* once in each pass. The recursion is never deeper than the number of
\* source nodes plus one.
C19_PassesTerminate ==
    /\ [](StepsLeft >= 0)
    /\ [](ExecutePc = "done" <=> StepsLeft = 0)
    /\ [](ExecutePc # "done" => CanStep)
    /\ [][StepsLeft' = StepsLeft - 1]_vars
    /\ [](Len(stack) <= NumNodes + 2)
    /\ [][AllocatorExpands =>
            /\ ~Has(m_NodeIndexRemapping, Top.GltfNodeIndex)
            /\ Has(m_NodeIndexRemapping', Top.GltfNodeIndex)]_vars
    /\ [][LoaderExpands =>
            /\ m_NodeIndexRemapping[Top.GltfNodeIndex] \notin m_LoadedNodes
            /\ m_NodeIndexRemapping[Top.GltfNodeIndex] \in m_LoadedNodes']_vars
    /\ [][/\ DOMAIN m_NodeIndexRemapping \subseteq DOMAIN m_NodeIndexRemapping'
          /\ m_LoadedNodes \subseteq m_LoadedNodes']_vars

\* C19 witness: Execute has run to its end over a graph whose children links
\* contain a cycle through allocated nodes.
C19_Witness ==
    /\ ExecutePc = "done"
    /\ OnCycle \cap DOMAIN m_NodeIndexRemapping # {}
    /\ Cardinality(m_LoadedNodes) >= 2

\* The source nodes below node n: those its children links lead to.
Descendants(n) == Reachable(SourceChildren, Range(SourceChildren[n + 1]))

\* All calls of LoadNode for the children of the running call's node have
\* returned: each child is loaded and its pointer is stored, in order.
ChildrenReturned ==
    LET Children == GetNode(Top.GltfNodeIndex).Children
        Stored == NodeAt(Top.LoadedNodeId).Children
    IN  /\ Len(Stored) = Len(Children)
        /\ \A c \in 1..Len(Children) :
              /\ Has(m_NodeIndexRemapping, Children[c])
              /\ m_NodeIndexRemapping[Children[c]] \in m_LoadedNodes
              /\ Stored[c] = m_NodeIndexRemapping[Children[c]]

\* The step loads a mesh that was not loaded before.
FirstLoadsMesh == LoaderAttaching /\ m_LoadedMeshes' # m_LoadedMeshes

\* By the end of the step every mesh a node below n refers to is loaded, and
\* the primitives the step appends come after all primitives of those meshes
\* and start no earlier in the index buffer.
SubtreeMeshesAppendedFirst(n) ==
    /\ \A d \in Descendants(n) :
          GetNode(d).MeshId >= 0 => m_MeshIndexRemapping[GetNode(d).MeshId] \in m_LoadedMeshes'
    /\ \A j \in (Len(primLog) + 1)..Len(primLog') : \A i \in 1..Len(primLog) :
          primLog'[i].IndexStart <= primLog'[j].IndexStart

\* C20 as the claim states it, for every node of every graph: LoadNode
\* attaches the mesh and the camera of its node only when the loading of all
\* children has returned, and a step that loads a mesh for the first time
\* leaves no mesh of the node's subtree to be loaded later.
C20_SubtreeMeshesFirst ==
    [][LoaderAttaching =>
          /\ ChildrenReturned
          /\ FirstLoadsMesh => SubtreeMeshesAppendedFirst(Top.GltfNodeIndex)]_vars

\* C20: LoadNode attaches the mesh and the camera of its node only when the
\* loading of all children has returned; for a node that lies on no cycle of
\* the children links, a step that loads a mesh for the first time leaves no
\* mesh of the node's subtree to be loaded later.
C20_SubtreeMeshesFirstOffCycles ==
    [][LoaderAttaching =>
          /\ ChildrenReturned
          /\ (FirstLoadsMesh /\ Top.GltfNodeIndex \notin OnCycle) =>
                SubtreeMeshesAppendedFirst(Top.GltfNodeIndex)]_vars

\* C20 witness: a node on no cycle and a node below it refer to different
\* meshes, and the primitives of the lower node's mesh were emitted first; the
\* graph also has a cycle through loaded nodes.
C20_Witness ==
    /\ ExecutePc = "done"
    /\ \E n \in DOMAIN m_NodeIndexRemapping \ OnCycle : \E d \in Descendants(n) :
          /\ GetNode(n).MeshId >= 0
          /\ GetNode(d).MeshId >= 0
          /\ GetNode(n).MeshId # GetNode(d).MeshId
          /\ \E i, j \in 1..Len(primLog) :
                /\ i < j
                /\ primLog[i].Mesh = m_MeshIndexRemapping[GetNode(d).MeshId]
                /\ primLog[j].Mesh = m_MeshIndexRemapping[GetNode(n).MeshId]
                /\ primLog[i].IndexStart < primLog[j].IndexStart
    /\ OnCycle \cap DOMAIN m_NodeIndexRemapping # {}

\* The indices of the node arena.
ArenaIds == 0..(Len(LinearNodes) - 1)

\* C21: when the loader pass is over, every entry of a node's children list
\* has that node as its parent, and every node returned as a root has no
\* parent.
C21_ParentChildLinksAgree ==
    LoaderDone =>
        /\ \A n \in ArenaIds : \A c \in Range(NodeAt(n).Children) : NodeAt(c).Parent = n
        /\ \A r \in Range(RootNodes) : NodeAt(r).Parent = Null

\* C21 witness: the loader pass is over for a graph in which two loaded nodes
\* list the same child.
C21_Witness ==
    /\ ExecutePc = "done"
    /\ \E a, b \in ArenaIds :
          /\ a # b
          /\ Range(NodeAt(a).Children) \cap Range(NodeAt(b).Children) # {}

\* The index counts of the primitives loaded before primitive i, added up.
IndexCountBefore(i) == SumOver([j \in 1..(i - 1) |-> primLog[j].IndexCount], 1..(i - 1))

\* No primitive among the first n of the log has indices of an unsupported type.
IndexTypesSupported(n) == \A j \in 1..n : ~HasUnsupportedIndices(j)

\* The primitives of the log that belong to loaded mesh m, in load order.
LoggedPrimitives(m) == SelectSeq(primLog, LAMBDA e : e.Mesh = m)

\* The length of m_IndexData in bytes.
IndexDataSize == Len(m_IndexData) * IndexStride

\* C22: as long as every index accessor met is of a supported type, the index
\* ranges of the primitives tile the index buffer in load order: a primitive
\* starts where the index counts of the primitives before it add up to, the
\* ranges of two primitives do not overlap, a primitive without an index
\* accessor has IndexCount 0 and one with an accessor has the accessor's
\* count, and the buffer is as long in bytes as all index counts together
\* times the index width. The primitives stored in the meshes carry these
\* starts and counts.
C22_IndexRangesTile ==
    /\ \A i \in 1..Len(primLog) :
          IndexTypesSupported(i - 1) => primLog[i].IndexStart = IndexCountBefore(i)
    /\ \A i, j \in 1..Len(primLog) :
          (IndexTypesSupported(j) /\ i < j) =>
              primLog[i].IndexStart + primLog[i].IndexCount <= primLog[j].IndexStart
    /\ \A i \in 1..Len(primLog) :
          /\ primLog[i].IndicesId < 0 => primLog[i].IndexCount = 0
          /\ i \in IndexedPrims => primLog[i].IndexCount = GetAccessor(primLog[i].IndicesId).Count
    /\ IndexTypesSupported(Len(primLog)) =>
          IndexDataSize = IndexCountBefore(Len(primLog) + 1) * IndexStride
    /\ \A m \in 0..(Len(Meshes) - 1) :
          m \in m_LoadedMeshes =>
              /\ Len(Meshes[m + 1].Primitives) = Len(LoggedPrimitives(m))
              /\ \A k \in 1..Len(LoggedPrimitives(m)) :
                    /\ Meshes[m + 1].Primitives[k].FirstIndex = LoggedPrimitives(m)[k].IndexStart
                    /\ Meshes[m + 1].Primitives[k].IndexCount = LoggedPrimitives(m)[k].IndexCount

\* C22 witness: two primitives with the same vertex key and different index
\* accessors of supported types have been loaded, with two index ranges that
\* follow each other and one vertex start.
C22_Witness ==
    /\ Len(primLog) = 2
    /\ IndexTypesSupported(2)
    /\ primLog[1].Key = primLog[2].Key
    /\ primLog[1].IndicesId # primLog[2].IndicesId
    /\ primLog[1].VertexStart = primLog[2].VertexStart
    /\ primLog[1].IndexCount > 0
    /\ primLog[2].IndexCount > 0
    /\ primLog[2].IndexStart = primLog[1].IndexCount
    /\ IndexDataSize > 0

\* The number of elements at the byte sizes (or offsets) of the vertex
\* buffers, read off buffer 0, and whether every buffer is at that number.
ElementsOf(Sizes) == Sizes[1] \div ElementStride(0)
InLockStep(Sizes) == \A b \in 1..Len(Sizes) : Sizes[b] = ElementsOf(Sizes) * ElementStride(b - 1)

\* The vertex counts of the conversions before conversion c, added up.
VertexCountBefore(c) == SumOver([d \in 1..(c - 1) |-> convertLog[d].VertexCount], 1..(c - 1))

\* C23: the vertex buffers always hold the same number of elements; every
\* memo entry records, for every buffer, the offset of one and the same
\* element, which is the VertexStart of the primitives of that key; the
\* ranges converted for distinct keys follow each other in conversion order
\* without gap or overlap, and fill the buffers.
C23_VertexBuffersInLockStep ==
    /\ InLockStep(m_VertexData)
    /\ \A Key \in DOMAIN m_ConvertedBuffers :
          /\ Len(m_ConvertedBuffers[Key].Offsets) = Len(m_VertexData)
          /\ InLockStep(m_ConvertedBuffers[Key].Offsets)
    /\ \A i \in 1..Len(primLog) :
          /\ Has(m_ConvertedBuffers, primLog[i].Key)
          /\ primLog[i].VertexStart = ElementsOf(m_ConvertedBuffers[primLog[i].Key].Offsets)
    /\ \A c \in 1..Len(convertLog) :
          /\ m_ConvertedBuffers[convertLog[c].Key].Offsets = convertLog[c].Offsets
          /\ ElementsOf(convertLog[c].Offsets) = VertexCountBefore(c)
          /\ \A d \in 1..(c - 1) :
                /\ convertLog[d].Key # convertLog[c].Key
                /\ ElementsOf(convertLog[d].Offsets) + convertLog[d].VertexCount
                      <= ElementsOf(convertLog[c].Offsets)
    /\ ElementsOf(m_VertexData) = VertexCountBefore(Len(convertLog) + 1)

\* C23 witness: two keys were converted into two vertex buffers of different
\* strides, the second key behind the vertices of the first, and the second
\* primitive starts at that vertex.
C23_Witness ==
    /\ Len(m_VertexData) = 2
    /\ ElementStride(0) # ElementStride(1)
    /\ Len(convertLog) = 2
    /\ convertLog[1].VertexCount > 0
    /\ convertLog[2].VertexCount > 0
    /\ ElementsOf(convertLog[2].Offsets) = convertLog[1].VertexCount
    /\ Len(primLog) = 2
    /\ primLog[2].VertexStart = convertLog[1].VertexCount

====
